---- MODULE Spec2Model ----
(***************************************************************************)
(* Tournament format engine (single elimination, Monrad, round robin,      *)
(* pools) together with the result-submission handler of the server that   *)
(* drives it.                                                              *)
(*                                                                         *)
(* Participant ids are the integers 1..n; id 0 (NULL) is "no id".  Names   *)
(* and match numbers are sequences of one-character strings, so that the   *)
(* string operations of the source (template formatting, replace,          *)
(* substring, parseInt, endsWith) are modelled by what they compute.       *)
(***************************************************************************)
EXTENDS Integers, Sequences, FiniteSets, TLC

VARIABLES
  entrants,       \* the participant list the tournament is generated from
  state_blob,     \* the tournament state (Monrad: tournament.state_blob as persisted)
  matches,        \* the generated matches (Monrad: the persisted TournamentMatch documents)
  bracket,        \* single elimination: the later-round matches, keyed by <<round, match_index>>
  callArg,        \* the state object handed to the last onMatchResult, read after the call
  callArgBefore,  \* the same object as it read when the call was made
  lastReturn,     \* what the last onMatchResult returned
  lastCall,       \* the (match, result) of the last onMatchResult call
  config,         \* the tournament's format id and the config keys that are present
  groups,         \* round robin and pools: the groups generation returned
  inflight,       \* the result handlers that have started and not yet finished
  standings,      \* a standings table and the comparator calls made on its rows
  formats         \* the engine's registry: format id -> registered format

vars == <<entrants, state_blob, matches, bracket, callArg, callArgBefore,
          lastReturn, lastCall, config, groups, inflight, standings, formats>>

NoStandings == [table |-> <<>>, comparisons |-> {}]

\* The formats the engine's constructor registers, in registration order.
FormatInstances ==
  <<[id |-> "single_elimination", name |-> "Single Elimination"],
    [id |-> "round_robin", name |-> "Round Robin"],
    [id |-> "monrad", name |-> "Monrad / Progressive Consolation"],
    [id |-> "pools_knockout", name |-> "Pools -> Knockout"]>>

\* _registerFormats: formats.set(format.id, format) for each instance.
RegisteredFormats ==
  [id \in {FormatInstances[i].id : i \in 1..Len(FormatInstances)} |->
     FormatInstances[CHOOSE i \in 1..Len(FormatInstances) :
                       /\ FormatInstances[i].id = id
                       /\ \A j \in (i + 1)..Len(FormatInstances) : FormatInstances[j].id # id]]

NULL == 0
NaN == -1

---------------------------------------------------------------------------
(* Strings                                                                 *)

DigitChars == <<"0", "1", "2", "3", "4", "5", "6", "7", "8", "9">>

IsDigit(c) == \E d \in 1..10 : DigitChars[d] = c

DigitValue(c) == (CHOOSE d \in 1..10 : DigitChars[d] = c) - 1

\* Template formatting of a non-negative integer: `${n}`.
RECURSIVE Dec(_)
Dec(n) == IF n < 10 THEN <<DigitChars[n + 1]>>
          ELSE Dec(n \div 10) \o <<DigitChars[(n % 10) + 1]>>

\* `R${round}M${matchNumber}`
MatchNumberString(round, n) == <<"R">> \o Dec(round) \o <<"M">> \o Dec(n)

\* parseInt: the value of the longest prefix of decimal digits, NaN when empty.
RECURSIVE ParseDigits(_, _, _)
ParseDigits(s, i, acc) ==
  IF i > Len(s) \/ ~IsDigit(s[i]) THEN acc
  ELSE ParseDigits(s, i + 1, acc * 10 + DigitValue(s[i]))

ParseInt(s) == IF Len(s) = 0 \/ ~IsDigit(s[1]) THEN NaN ELSE ParseDigits(s, 1, 0)

\* String.prototype.replace(pattern, ''): the first occurrence of pattern removed.
StrReplaceFirst(s, pat) ==
  LET occ == {i \in 1..(Len(s) - Len(pat) + 1) : SubSeq(s, i, i + Len(pat) - 1) = pat}
  IN IF occ = {} THEN s
     ELSE LET i == CHOOSE k \in occ : \A j \in occ : k <= j
          IN SubSeq(s, 1, i - 1) \o SubSeq(s, i + Len(pat), Len(s))

\* String.prototype.substring(start), start counted from 0.
Substring(s, start) == SubSeq(s, start + 1, Len(s))

EndsWith(s, c) == Len(s) > 0 /\ s[Len(s)] = c

\* const v = value; Body(v): the value is computed once and then used by Body.
With(value, Body(_)) == CHOOSE out \in {Body(v) : v \in {value}} : TRUE

---------------------------------------------------------------------------
(* Participants and participant references                                 *)

PlayerName(id) == <<"P">> \o Dec(id)
ByeName == <<"B", "Y", "E">>
MonradByeName(i) == ByeName \o <<" ">> \o Dec(i)
SeedName(s) == <<"S", "e", "e", "d", " ">> \o Dec(s)

NoRef == [type |-> "none", participant_id |-> NULL, seed |-> NULL, name |-> <<>>]

ParticipantRef(id, name) ==
  [type |-> "participant", participant_id |-> id, seed |-> NULL, name |-> name]

ByeRef(id, name) ==
  [type |-> "bye", participant_id |-> id, seed |-> NULL, name |-> name]

SeedRef(s) ==
  [type |-> "seed_position", participant_id |-> NULL, seed |-> s, name |-> SeedName(s)]

NoResult ==
  [winner_participant_id |-> NULL, winner_name |-> <<>>,
   loser_participant_id |-> NULL, loser_name |-> <<>>, walkover |-> FALSE]

\* The result sub-document every format writes into the completed match.
ResultOf(matchResult) ==
  [winner_participant_id |-> matchResult.winner_id,
   winner_name |-> matchResult.winner_name,
   loser_participant_id |-> matchResult.loser_id,
   loser_name |-> matchResult.loser_name,
   walkover |-> FALSE]

\* Array.prototype.sort with a comparator that orders by an integer key: the
\* sort is stable, so equal keys keep their input order.
SortByKey(seq, Key(_)) ==
  LET n == Len(seq)
      rank == [i \in 1..n |->
                 Cardinality({j \in 1..n : Key(seq[j]) < Key(seq[i])
                                           \/ (Key(seq[j]) = Key(seq[i]) /\ j < i)})]
      at == [k \in 1..n |-> CHOOSE i \in 1..n : rank[i] = k - 1]
  IN [k \in 1..n |-> seq[at[k]]]

---------------------------------------------------------------------------
(* MonradFormat                                                            *)

Participant(id, seed) == [id |-> id, name |-> PlayerName(id), seed |-> seed, type |-> "real"]

MonradSupportedSizes == <<8, 16, 32>>

\* a.seed || 999
MonradSortKey(p) == IF p.seed # 0 THEN p.seed ELSE 999

MonradSortParticipants(participants) == SortByKey(participants, MonradSortKey)

\* Math.ceil(Math.log2(participantCount))
MonradCalculateRounds(participantCount) ==
  CHOOSE k \in 0..8 : 2^k >= participantCount /\ (k = 0 \/ 2^(k - 1) < participantCount)

\* An id no participant of the list has: new mongoose.Types.ObjectId().
NewObjectId(participants, i) ==
  LET ids == {participants[k].id : k \in 1..Len(participants)}
  IN (CHOOSE x \in ids : \A y \in ids : y <= x) + i

\* Mutant of AdjustParticipantsForMonrad: the byes are put in front of the
\* participants.
AdjustParticipantsByesFirst(participants) ==
  LET actualCount == Len(participants)
      fits == {i \in 1..Len(MonradSupportedSizes) : MonradSupportedSizes[i] >= actualCount}
  IN IF fits = {} THEN SubSeq(participants, 1, 32)
     ELSE LET targetSize == MonradSupportedSizes[CHOOSE i \in fits : \A j \in fits : i <= j]
              byeCount == targetSize - actualCount
          IN [i \in 1..byeCount |->
                [id |-> NewObjectId(participants, i), name |-> MonradByeName(i),
                 seed |-> 999 + i, type |-> "bye"]] \o participants

AdjustParticipantsForMonrad(participants) ==
  LET actualCount == Len(participants)
      fits == {i \in 1..Len(MonradSupportedSizes) : MonradSupportedSizes[i] >= actualCount}
  IN IF fits = {} THEN SubSeq(participants, 1, 32)
     ELSE LET targetSize == MonradSupportedSizes[CHOOSE i \in fits : \A j \in fits : i <= j]
              byeCount == targetSize - actualCount
          IN IF actualCount = targetSize THEN participants
             ELSE participants \o
                  [i \in 1..byeCount |->
                     [id |-> NewObjectId(participants, i), name |-> MonradByeName(i),
                      seed |-> 999 + i, type |-> "bye"]]

PairingStructures ==
  (8 :> << <<<<1, 8>>, <<2, 7>>, <<3, 6>>, <<4, 5>>>>,
           <<<<1, 4>>, <<2, 3>>, <<5, 8>>, <<6, 7>>>>,
           <<<<1, 2>>, <<3, 4>>, <<5, 6>>, <<7, 8>>>> >>)
  @@
  (16 :> << <<<<1, 16>>, <<2, 15>>, <<3, 14>>, <<4, 13>>,
              <<5, 12>>, <<6, 11>>, <<7, 10>>, <<8, 9>>>>,
            <<<<1, 8>>, <<2, 7>>, <<3, 6>>, <<4, 5>>,
              <<9, 16>>, <<10, 15>>, <<11, 14>>, <<12, 13>>>>,
            <<<<1, 4>>, <<2, 3>>, <<5, 8>>, <<6, 7>>,
              <<9, 12>>, <<10, 11>>, <<13, 16>>, <<14, 15>>>>,
            <<<<1, 2>>, <<3, 4>>, <<5, 6>>, <<7, 8>>,
              <<9, 10>>, <<11, 12>>, <<13, 14>>, <<15, 16>>>> >>)
  @@
  (32 :> << <<<<1, 32>>, <<2, 31>>, <<3, 30>>, <<4, 29>>, <<5, 28>>, <<6, 27>>,
              <<7, 26>>, <<8, 25>>, <<9, 24>>, <<10, 23>>, <<11, 22>>, <<12, 21>>,
              <<13, 20>>, <<14, 19>>, <<15, 18>>, <<16, 17>>>>,
            <<<<1, 16>>, <<2, 15>>, <<3, 14>>, <<4, 13>>, <<5, 12>>, <<6, 11>>,
              <<7, 10>>, <<8, 9>>, <<17, 32>>, <<18, 31>>, <<19, 30>>, <<20, 29>>,
              <<21, 28>>, <<22, 27>>, <<23, 26>>, <<24, 25>>>>,
            <<<<1, 8>>, <<2, 7>>, <<3, 6>>, <<4, 5>>, <<9, 16>>, <<10, 15>>,
              <<11, 14>>, <<12, 13>>, <<17, 24>>, <<18, 23>>, <<19, 22>>, <<20, 21>>,
              <<25, 32>>, <<26, 31>>, <<27, 30>>, <<28, 29>>>>,
            <<<<1, 4>>, <<2, 3>>, <<5, 8>>, <<6, 7>>, <<9, 12>>, <<10, 11>>,
              <<13, 16>>, <<14, 15>>, <<17, 20>>, <<18, 19>>, <<21, 24>>, <<22, 23>>,
              <<25, 28>>, <<26, 27>>, <<29, 32>>, <<30, 31>>>>,
            <<<<1, 2>>, <<3, 4>>, <<5, 6>>, <<7, 8>>, <<9, 10>>, <<11, 12>>,
              <<13, 14>>, <<15, 16>>, <<17, 18>>, <<19, 20>>, <<21, 22>>, <<23, 24>>,
              <<25, 26>>, <<27, 28>>, <<29, 30>>, <<31, 32>>>> >>)

\* Mutant of HasMonradPairs: the field of 32 has no pairing table.
HasMonradPairsUpTo16(participantCount, round) ==
  /\ participantCount \in DOMAIN PairingStructures \ {32}
  /\ round \in DOMAIN PairingStructures[participantCount]

\* FALSE where _getMonradPairs throws "pairing structure not defined".
HasMonradPairs(participantCount, round) ==
  /\ participantCount \in DOMAIN PairingStructures
  /\ round \in DOMAIN PairingStructures[participantCount]

\* Mutant of GetMonradPairs: seed k is paired with seed k + 1 in every round.
GetMonradPairsNeighbours(participantCount, round) ==
  [index \in 1..(participantCount \div 2) |-> <<index, index + 1>>]

GetMonradPairs(participantCount, round) == PairingStructures[participantCount][round]

\* Mutant of GenerateRoundMatches: a round-1 match with a bye is emitted like
\* any other round-1 match, ready and without a result.
GenerateRoundMatchesByesReady(participants, round, participantCount) ==
  LET matchPairs == GetMonradPairs(participantCount, round)
  IN [index \in 1..Len(matchPairs) |->
       LET pair == matchPairs[index]
           refOf(p) == IF p.type = "bye" THEN ByeRef(p.id, p.name)
                       ELSE ParticipantRef(p.id, p.name)
       IN [round |-> round,
           match_number |-> MatchNumberString(round, index),
           status |-> IF round = 1 THEN "ready" ELSE "pending",
           participant_a |-> IF round = 1 THEN refOf(participants[pair[1]])
                             ELSE SeedRef(pair[1]),
           participant_b |-> IF round = 1 THEN refOf(participants[pair[2]])
                             ELSE SeedRef(pair[2]),
           result |-> NoResult]]

GenerateRoundMatches(participants, round, participantCount) ==
  LET matchPairs == GetMonradPairs(participantCount, round)
  IN [index \in 1..Len(matchPairs) |->
       LET pair == matchPairs[index]
           base == [round |-> round,
                    match_number |-> MatchNumberString(round, index),
                    status |-> IF round = 1 THEN "ready" ELSE "pending",
                    participant_a |-> NoRef, participant_b |-> NoRef,
                    result |-> NoResult]
       IN IF round = 1
          THEN LET participantA == participants[pair[1]]
                   participantB == participants[pair[2]]
                   isByeMatch == participantA.type = "bye" \/ participantB.type = "bye"
                   refOf(p) == IF p.type = "bye" THEN ByeRef(p.id, p.name)
                               ELSE ParticipantRef(p.id, p.name)
                   winner == IF participantA.type # "bye" THEN participantA ELSE participantB
                   loser == IF participantA.type = "bye" THEN participantA ELSE participantB
               IN [base EXCEPT
                     !.participant_a = refOf(participantA),
                     !.participant_b = refOf(participantB),
                     !.status = IF isByeMatch THEN "completed" ELSE @,
                     !.result = IF isByeMatch
                                THEN [winner_participant_id |-> winner.id,
                                      winner_name |-> winner.name,
                                      loser_participant_id |->
                                        IF loser.type = "bye" THEN NULL ELSE loser.id,
                                      loser_name |->
                                        IF loser.type = "bye" THEN ByeName ELSE loser.name,
                                      walkover |-> TRUE]
                                ELSE @]
          ELSE [base EXCEPT !.participant_a = SeedRef(pair[1]),
                            !.participant_b = SeedRef(pair[2])]]

RECURSIVE GenerateAllMatchesFrom(_, _, _)
GenerateAllMatchesFrom(participants, round, totalRounds) ==
  IF round > totalRounds THEN <<>>
  ELSE GenerateRoundMatches(participants, round, Len(participants))
       \o GenerateAllMatchesFrom(participants, round + 1, totalRounds)

GenerateAllMatches(participants, totalRounds) ==
  GenerateAllMatchesFrom(participants, 1, totalRounds)

InitializeHistory(participants) ==
  [id \in {participants[i].id : i \in 1..Len(participants)} |->
     LET p == participants[CHOOSE i \in 1..Len(participants) : participants[i].id = id]
     IN [participant_id |-> p.id, name |-> p.name, wins |-> 0, losses |-> 0,
         opponents |-> <<>>, current_seed |-> IF p.seed # 0 THEN p.seed ELSE 999]]

InitializeSeedPositions(participants) ==
  [index \in 1..Len(participants) |->
     [participant_id |-> participants[index].id,
      name |-> participants[index].name,
      current_seed |-> index]]

MonradGenerateInitialState(participants) ==
  LET sortedParticipants == MonradSortParticipants(participants)
      adjustedParticipants == AdjustParticipantsForMonrad(sortedParticipants)
      effectiveParticipantCount == Len(adjustedParticipants)
      totalRounds == MonradCalculateRounds(effectiveParticipantCount)
  IN [state |-> [format |-> "monrad",
                 participantCount |-> Len(participants),
                 effectiveParticipantCount |-> effectiveParticipantCount,
                 totalRounds |-> totalRounds,
                 currentRound |-> 1,
                 participantHistory |-> InitializeHistory(adjustedParticipants),
                 seedPositions |-> InitializeSeedPositions(adjustedParticipants),
                 completed |-> FALSE],
      matches |-> GenerateAllMatches(adjustedParticipants, totalRounds)]

---------------------------------------------------------------------------
(* MonradFormat.onMatchResult                                              *)

\* The state after _updateParticipantHistory: a copy of the state whose
\* participantHistory is a copy with the winner's and the loser's entries replaced.
UpdateParticipantHistory(state, matchResult) ==
  LET history == state.participantHistory
      afterWinner ==
        IF matchResult.winner_id \in DOMAIN history
        THEN [history EXCEPT ![matchResult.winner_id] =
                [@ EXCEPT !.wins = @ + 1,
                          !.opponents = Append(@, matchResult.loser_id)]]
        ELSE history
      afterLoser ==
        IF matchResult.loser_id \in DOMAIN afterWinner
        THEN [afterWinner EXCEPT ![matchResult.loser_id] =
                [@ EXCEPT !.losses = @ + 1,
                          !.opponents = Append(@, matchResult.winner_id)]]
        ELSE afterWinner
  IN [state EXCEPT !.participantHistory = afterLoser]

\* The 0-based index _updateSeedPositions reads out of the match number.
MonradMatchIndex(completedMatch) ==
  LET n == ParseInt(StrReplaceFirst(completedMatch.match_number,
                                    <<"R">> \o Dec(completedMatch.round) \o <<"M">>))
  IN IF n = NaN THEN NaN ELSE n - 1

\* state.effectiveParticipantCount || state.participantCount
MonradStateSize(state) ==
  IF state.effectiveParticipantCount # 0 THEN state.effectiveParticipantCount
  ELSE state.participantCount

\* FALSE where _updateSeedPositions throws: no pairing table, or no pair at the index.
UpdateSeedPositionsDefined(state, completedMatch) ==
  /\ HasMonradPairs(MonradStateSize(state), completedMatch.round)
  /\ MonradMatchIndex(completedMatch) + 1
       \in DOMAIN GetMonradPairs(MonradStateSize(state), completedMatch.round)

\* Mutant of UpdateSeedPositions: the winner is given the higher seed of the
\* pair and the loser the lower one.
UpdateSeedPositionsLoserUp(state, completedMatch, matchResult) ==
  LET matchPairs == GetMonradPairs(MonradStateSize(state), completedMatch.round)
      pair == matchPairs[MonradMatchIndex(completedMatch) + 1]
      lowerSeed == IF pair[1] < pair[2] THEN pair[1] ELSE pair[2]
      higherSeed == IF pair[1] < pair[2] THEN pair[2] ELSE pair[1]
  IN [state.seedPositions EXCEPT
        ![higherSeed] = [participant_id |-> matchResult.winner_id,
                         name |-> matchResult.winner_name,
                         current_seed |-> higherSeed],
        ![lowerSeed] = [participant_id |-> matchResult.loser_id,
                        name |-> matchResult.loser_name,
                        current_seed |-> lowerSeed]]

\* Mutant of UpdateSeedPositions: only the winner's entry is written.
UpdateSeedPositionsWinnerOnly(state, completedMatch, matchResult) ==
  LET matchPairs == GetMonradPairs(MonradStateSize(state), completedMatch.round)
      pair == matchPairs[MonradMatchIndex(completedMatch) + 1]
      lowerSeed == IF pair[1] < pair[2] THEN pair[1] ELSE pair[2]
  IN [state.seedPositions EXCEPT ![lowerSeed] =
        [participant_id |-> matchResult.winner_id,
         name |-> matchResult.winner_name,
         current_seed |-> lowerSeed]]

\* The seed table object after _updateSeedPositions has assigned into it.
UpdateSeedPositions(state, completedMatch, matchResult) ==
  LET matchPairs == GetMonradPairs(MonradStateSize(state), completedMatch.round)
      pair == matchPairs[MonradMatchIndex(completedMatch) + 1]
      lowerSeed == IF pair[1] < pair[2] THEN pair[1] ELSE pair[2]
      higherSeed == IF pair[1] < pair[2] THEN pair[2] ELSE pair[1]
      withWinner ==
        [state.seedPositions EXCEPT ![lowerSeed] =
           [participant_id |-> matchResult.winner_id,
            name |-> matchResult.winner_name,
            current_seed |-> lowerSeed]]
  IN IF matchResult.loser_id # NULL /\ matchResult.loser_name # ByeName
     THEN [withWinner EXCEPT ![higherSeed] =
             [participant_id |-> matchResult.loser_id,
              name |-> matchResult.loser_name,
              current_seed |-> higherSeed]]
     ELSE withWinner

\* _resolveWaitingMatches: the engine resolves nothing, the server does.
ResolveWaitingMatches(state, completedMatch) == <<>>

\* Mutant of MonradCheckTournamentComplete: the check reports completion.
MonradCheckReportsComplete(state) == TRUE

MonradCheckTournamentComplete(state) == FALSE

\* onMatchResult.  `state` is the returned state, `updatedMatches` the returned
\* matches, `input` the object that was passed in as it reads after the call:
\* the returned state is a shallow copy of it, so the two share one seed table
\* object, and _updateSeedPositions assigns into that object.
MonradOnMatchResult(state, tournamentMatch, matchResult) ==
  LET updatedMatch == [tournamentMatch EXCEPT !.status = "completed",
                                              !.result = ResultOf(matchResult)]
      Finish(withSeeds) ==
        LET resolvedMatches == ResolveWaitingMatches(withSeeds, tournamentMatch)
            completed == IF tournamentMatch.round = withSeeds.totalRounds
                         THEN MonradCheckTournamentComplete(withSeeds)
                         ELSE withSeeds.completed
        IN [state |-> [withSeeds EXCEPT !.completed = completed],
            updatedMatches |-> <<updatedMatch>> \o resolvedMatches,
            tournamentComplete |-> completed,
            input |-> [state EXCEPT !.seedPositions = withSeeds.seedPositions]]
      Seeded(newState) ==
        With(UpdateSeedPositions(newState, tournamentMatch, matchResult),
             LAMBDA seedTable : Finish([newState EXCEPT !.seedPositions = seedTable]))
  IN With(UpdateParticipantHistory(state, matchResult), Seeded)

MonradIsComplete(state) == state.completed

---------------------------------------------------------------------------
(* server.js: tournament creation and the result handler (Monrad)          *)

\* POST /api/tournaments stores round, stage, match_number, the two slots, the
\* status and the group of every generated match, and nothing else.
CreateMatchDocs(generated) ==
  [i \in 1..Len(generated) |-> [generated[i] EXCEPT !.result = NoResult]]

\* The ids the handler collects from the completed matches of a round.
AvailableParticipantIds(docs, round) ==
  LET completedCurrentRoundMatches ==
        {i \in 1..Len(docs) : docs[i].round = round /\ docs[i].status = "completed"}
  IN ({docs[i].result.winner_participant_id : i \in completedCurrentRoundMatches}
      \cup {docs[i].result.loser_participant_id : i \in completedCurrentRoundMatches})
     \ {NULL}

\* Mutant of ResolveSlot: the slot is filled from the seed table whether or not
\* the participant found there has a result in the round just played.
ResolveSlotIgnoringAvailability(ref, seedPositions, availableParticipantIds) ==
  IF ref.type = "seed_position" /\ ref.seed \in DOMAIN seedPositions
     /\ seedPositions[ref.seed].participant_id # NULL
  THEN ParticipantRef(seedPositions[ref.seed].participant_id,
                      seedPositions[ref.seed].name)
  ELSE ref

ResolveSlot(ref, seedPositions, availableParticipantIds) ==
  IF ref.type = "seed_position" /\ ref.seed \in DOMAIN seedPositions
     /\ seedPositions[ref.seed].participant_id # NULL
     /\ seedPositions[ref.seed].participant_id \in availableParticipantIds
  THEN ParticipantRef(seedPositions[ref.seed].participant_id,
                      seedPositions[ref.seed].name)
  ELSE ref

\* Mutant of ResolveMatch: the match is made ready as soon as one of its slots
\* is concrete.
ResolveMatchEitherSlot(match, seedPositions, availableParticipantIds) ==
  LET a == ResolveSlot(match.participant_a, seedPositions, availableParticipantIds)
      b == ResolveSlot(match.participant_b, seedPositions, availableParticipantIds)
  IN [match EXCEPT
        !.participant_a = a,
        !.participant_b = b,
        !.status = IF (a.type = "participant" \/ b.type = "participant")
                      /\ match.status = "pending"
                   THEN "ready" ELSE @]

\* One pass of the loop body over a next-round match: the document it writes.
ResolveMatch(match, seedPositions, availableParticipantIds) ==
  LET a == ResolveSlot(match.participant_a, seedPositions, availableParticipantIds)
      b == ResolveSlot(match.participant_b, seedPositions, availableParticipantIds)
  IN [match EXCEPT
        !.participant_a = a,
        !.participant_b = b,
        !.status = IF a.type = "participant" /\ b.type = "participant"
                      /\ match.status = "pending"
                   THEN "ready" ELSE @]

\* The placeholder resolution that follows the update of the completed match.
ResolvePlaceholders(docs, state, round) ==
  LET nextRound == round + 1
  IN IF nextRound <= state.totalRounds
     THEN With(AvailableParticipantIds(docs, round),
               LAMBDA available :
                 [i \in 1..Len(docs) |->
                    IF docs[i].round = nextRound
                       /\ (docs[i].participant_a.type = "seed_position"
                           \/ docs[i].participant_b.type = "seed_position")
                    THEN ResolveMatch(docs[i], state.seedPositions, available)
                    ELSE docs[i]])
     ELSE docs

MatchResult(winner, loser) ==
  [winner_id |-> winner.participant_id, winner_name |-> winner.name,
   loser_id |-> loser.participant_id, loser_name |-> loser.name]

\* The handler from the reads of the tournament and the match to the last write:
\* the state it stores and the match documents it leaves behind.
HandleResult(blob, docs, m, matchResult) ==
  LET tournamentMatch == docs[m]
      Stored(result) ==
        With([docs EXCEPT ![m] = result.updatedMatches[1]],
             LAMBDA updated :
               [state |-> result.state,
                matches |-> ResolvePlaceholders(updated, result.state,
                                                tournamentMatch.round),
                updatedMatches |-> result.updatedMatches,
                tournamentComplete |-> result.tournamentComplete,
                input |-> result.input])
  IN With(MonradOnMatchResult(blob, tournamentMatch, matchResult), Stored)

\* The result payload that names slot A (aWins) or slot B as the winner.
ResultFor(match, aWins) ==
  IF aWins THEN MatchResult(match.participant_a, match.participant_b)
  ELSE MatchResult(match.participant_b, match.participant_a)

\* A result is reported for a match that is ready to play, naming its two
\* participants as winner and loser.  The handler runs to completion before the
\* next submission is taken up.
SubmitResult(m, aWins) ==
  /\ config.format = "monrad"
  /\ matches[m].status = "ready"
  /\ UpdateSeedPositionsDefined(state_blob, matches[m])
  /\ \E matchResult \in {ResultFor(matches[m], aWins)} :
       \E handled \in {HandleResult(state_blob, matches, m, matchResult)} :
         /\ state_blob' = handled.state
         /\ matches' = handled.matches
         /\ callArg' = handled.input
         /\ callArgBefore' = state_blob
         /\ lastReturn' = [updatedMatches |-> handled.updatedMatches,
                           tournamentComplete |-> handled.tournamentComplete]
         /\ lastCall' = [match |-> m, round |-> matches[m].round, result |-> matchResult]
        /\ UNCHANGED <<entrants, bracket, config, groups, inflight, standings, formats>>

\* The participant counts that are normalized to the smallest supported size.
MonradCounts == {n \in 4..32 : Len(AdjustParticipantsForMonrad([i \in 1..n |-> Participant(i, i)])) = MonradSupportedSizes[1]}

\* The participant list as the caller hands it over: seeded 1..n, last seed first.
MonradParticipants(n) == [i \in 1..n |-> Participant(n + 1 - i, n + 1 - i)]

NoCall == [match |-> 0, round |-> 0, result |-> MatchResult(NoRef, NoRef)]

NoReturn == [updatedMatches |-> <<>>, tournamentComplete |-> FALSE]

Init ==
  \E n \in MonradCounts :
    LET generated == MonradGenerateInitialState(MonradParticipants(n))
    IN /\ entrants = MonradSortParticipants(MonradParticipants(n))
       /\ state_blob = generated.state
       /\ matches = CreateMatchDocs(generated.matches)
       /\ bracket = <<>>
       /\ callArg = generated.state
       /\ callArgBefore = generated.state
       /\ lastReturn = NoReturn
       /\ lastCall = NoCall
       /\ config = [format |-> "monrad"]
       /\ groups = <<>>
       /\ inflight = <<>>
       /\ standings = NoStandings
       /\ formats = RegisteredFormats

Next == \E m \in 1..Len(matches), aWins \in BOOLEAN : SubmitResult(m, aWins)

Spec == Init /\ [][Next]_vars

---------------------------------------------------------------------------
(* SingleEliminationFormat: generation                                     *)

SEMinParticipants == 2
SEMaxParticipants == 128

\* validateConfig: the participant count is in range and no seed occurs twice.
SEValidateConfig(participants) ==
  LET seeds == SelectSeq([i \in 1..Len(participants) |-> participants[i].seed],
                         LAMBDA x : x # 0)
  IN /\ Len(participants) >= SEMinParticipants
     /\ Len(participants) <= SEMaxParticipants
     /\ Cardinality({seeds[i] : i \in 1..Len(seeds)}) = Len(seeds)

\* Mutant of SEGetDrawSize: the smallest power of two above the count.
SEGetDrawSizeAbove(participantCount) ==
  2^(CHOOSE k \in 0..8 : 2^k > participantCount /\ (k = 0 \/ 2^(k - 1) <= participantCount))

\* Math.pow(2, Math.ceil(Math.log2(participantCount)))
SEGetDrawSize(participantCount) ==
  2^(CHOOSE k \in 0..8 : 2^k >= participantCount /\ (k = 0 \/ 2^(k - 1) < participantCount))

\* Math.log2(drawSize), for a drawSize that is a power of two.
Log2(drawSize) == CHOOSE k \in 0..8 : 2^k = drawSize

\* The collation order of the characters that occur in names: the space, then
\* the digits, then the letters.
DigitOrder == [c \in {DigitChars[d] : d \in 1..10} |-> CHOOSE d \in 1..10 : DigitChars[d] = c]

Letters == <<"A", "B", "C", "D", "E", "F", "G", "H", "I", "J", "K", "L", "M",
             "N", "O", "P", "Q", "R", "S", "T", "U", "V", "W", "X", "Y", "Z">>

LetterOrder == [c \in {Letters[d] : d \in 1..26} |-> CHOOSE d \in 1..26 : Letters[d] = c]

CharOrder(c) ==
  IF c = " " THEN 0
  ELSE IF c \in DOMAIN DigitOrder THEN DigitOrder[c]
  ELSE IF c \in DOMAIN LetterOrder THEN 10 + LetterOrder[c]
  ELSE 37

\* a.localeCompare(b) < 0, decided from character i on.
RECURSIVE NameBeforeFrom(_, _, _)
NameBeforeFrom(a, b, i) ==
  IF i > Len(b) THEN FALSE
  ELSE IF i > Len(a) THEN TRUE
  ELSE IF a[i] = b[i] THEN NameBeforeFrom(a, b, i + 1)
  ELSE IF CharOrder(a[i]) # CharOrder(b[i]) THEN CharOrder(a[i]) < CharOrder(b[i])
  ELSE NameBeforeFrom(a, b, i + 1)

NameBefore(a, b) == NameBeforeFrom(a, b, 1)

\* The comparator of _sortParticipants returns a negative number.
SEBefore(a, b) ==
  IF a.seed # 0 /\ b.seed # 0 THEN a.seed < b.seed
  ELSE IF a.seed # 0 /\ b.seed = 0 THEN TRUE
  ELSE IF a.seed = 0 /\ b.seed # 0 THEN FALSE
  ELSE NameBefore(a.name, b.name)

\* Array.prototype.sort under that comparator.  The sort is stable: an element
\* is preceded by the elements that compare before it and by the earlier ones
\* among those that compare equal to it.
SESortParticipants(participants) ==
  LET n == Len(participants)
      placed == {<<Cardinality({j \in 1..n :
                     \/ SEBefore(participants[j], participants[i])
                     \/ (~SEBefore(participants[i], participants[j]) /\ j < i)}) + 1,
                   i>> : i \in 1..n}
  IN [k \in 1..n |-> participants[(CHOOSE pr \in placed : pr[1] = k)[2]]]

\* The inner loop of _generateSeededPositions over its iterations lo..hi, the
\* k-th of which looks at array index first + k * step (counted from 0): every
\* position found empty takes the next seed.
RECURSIVE SeedStep(_, _, _, _, _)
SeedStep(acc, first, step, lo, hi) ==
  IF lo > hi \/ acc.nextSeed = 0 THEN acc   \* nextSeed is never 0: acc is evaluated first
  ELSE IF lo = hi
       THEN IF acc.positions[first + lo * step + 1] = 0
            THEN [positions |-> [acc.positions EXCEPT ![first + lo * step + 1] = acc.nextSeed],
                  nextSeed |-> acc.nextSeed + 1]
            ELSE acc
       ELSE SeedStep(SeedStep(acc, first, step, lo, (lo + hi) \div 2),
                     first, step, (lo + hi) \div 2 + 1, hi)

RECURSIVE SeedRounds(_, _, _)
SeedRounds(acc, round, drawSize) ==
  IF round >= Log2(drawSize) THEN acc
  ELSE LET step == drawSize \div (2^round)
           first == step \div 2
           \* the iterations i = first, first + step, ... while i < drawSize
           last == (drawSize - 1 - first) \div step
       IN SeedRounds(SeedStep(acc, first, step, 0, last), round + 1, drawSize)

\* _generateSeededPositions; 0 stands for a position that was never assigned.
GenerateSeededPositions(drawSize) ==
  LET first == [[i \in 1..drawSize |-> 0] EXCEPT ![1] = 1]
      start == [first EXCEPT ![drawSize] = 2]
  IN SeedRounds([positions |-> start, nextSeed |-> 3], 2, drawSize).positions

\* Mutant of GenerateBracketPositions: the seeds in bracket order 1, 2, 3, ...
GenerateBracketPositionsInOrder(drawSize) == [i \in 1..drawSize |-> i]

GenerateBracketPositions(drawSize) ==
  IF drawSize = 4 THEN <<1, 4, 3, 2>>
  ELSE IF drawSize = 8 THEN <<1, 8, 5, 4, 3, 6, 7, 2>>
  ELSE IF drawSize = 16 THEN <<1, 16, 9, 8, 5, 12, 13, 4, 3, 14, 11, 6, 7, 10, 15, 2>>
  ELSE IF drawSize = 32
       THEN <<1, 32, 16, 17, 9, 24, 25, 8, 5, 28, 21, 12, 13, 20, 29, 4, 3, 30, 19,
              14, 11, 22, 27, 6, 7, 26, 23, 10, 15, 18, 31, 2>>
  ELSE GenerateSeededPositions(drawSize)

\* Array.prototype.indexOf as a position counted from 1; 0 when absent.
IndexOf(seq, v) ==
  LET hits == {i \in 1..Len(seq) : seq[i] = v}
  IN IF hits = {} THEN 0 ELSE CHOOSE i \in hits : \A j \in hits : i <= j

NullParticipant == [id |-> NULL, name |-> <<>>, seed |-> 0, type |-> "null"]
ByeParticipant == [id |-> NULL, name |-> ByeName, seed |-> 0, type |-> "bye"]

\* draw[position] = participant; an index outside the array leaves its elements alone.
DrawAssign(draw, position, participant) ==
  IF position \in 1..Len(draw) THEN [draw EXCEPT ![position] = participant] ELSE draw

\* The placement loop of _placeSeedsInBracket over participants lo..hi.
RECURSIVE PlaceParticipants(_, _, _, _, _)
PlaceParticipants(draw, participants, lo, hi, bracketPositions) ==
  IF lo > hi \/ Len(draw) = 0 THEN draw
  ELSE IF lo = hi
       THEN LET participant == participants[lo]
                position ==
                  IF participant.seed # 0 /\ participant.seed <= Len(bracketPositions)
                  THEN IndexOf(bracketPositions, participant.seed)
                  ELSE IndexOf(draw, NullParticipant)
            IN DrawAssign(draw, position, participant)
       ELSE PlaceParticipants(
              PlaceParticipants(draw, participants, lo, (lo + hi) \div 2, bracketPositions),
              participants, (lo + hi) \div 2 + 1, hi, bracketPositions)

\* _getByePositions, as positions counted from 1.
GetByePositions(drawSize, byeCount) ==
  LET bracketPositions == GenerateBracketPositions(drawSize)
      found == SelectSeq([seed \in 1..byeCount |-> IndexOf(bracketPositions, seed)],
                         LAMBDA position : position # 0)
  IN [k \in 1..Len(found) |->
        IF (found[k] - 1) % 2 = 0 THEN found[k] + 1 ELSE found[k] - 1]

\* The forEach over byePositions lo..hi: a bye goes where the draw is still empty.
RECURSIVE PlaceByes(_, _, _, _)
PlaceByes(draw, byePositions, lo, hi) ==
  IF lo > hi \/ Len(draw) = 0 THEN draw
  ELSE IF lo = hi
       THEN IF draw[byePositions[lo]] = NullParticipant
            THEN [draw EXCEPT ![byePositions[lo]] = ByeParticipant]
            ELSE draw
       ELSE PlaceByes(PlaceByes(draw, byePositions, lo, (lo + hi) \div 2),
                      byePositions, (lo + hi) \div 2 + 1, hi)

PlaceSeedsInBracket(participants, bracketPositions, byeCount) ==
  LET empty == [i \in 1..Len(bracketPositions) |-> NullParticipant]
      placed == PlaceParticipants(empty, participants, 1, Len(participants),
                                  bracketPositions)
      byePositions == GetByePositions(Len(bracketPositions), byeCount)
  IN PlaceByes(placed, byePositions, 1, Len(byePositions))

CreateMatchParticipant(participant) ==
  IF participant.type = "null" THEN ByeRef(NULL, ByeName)
  ELSE IF participant.type = "bye" THEN ByeRef(NULL, ByeName)
  ELSE ParticipantRef(participant.id, participant.name)

GetInitialMatchStatus(participantA, participantB) ==
  IF participantA.type = "null" \/ participantB.type = "null"
     \/ participantA.type = "bye" \/ participantB.type = "bye"
  THEN "completed" ELSE "ready"

\* _generateInitialMatches: the matches carry no result field.
GenerateInitialMatches(seededDraw, drawSize) ==
  [matchNumber \in 1..(drawSize \div 2) |->
     [round |-> 1,
      match_number |-> MatchNumberString(1, matchNumber),
      participant_a |-> CreateMatchParticipant(seededDraw[2 * matchNumber - 1]),
      participant_b |-> CreateMatchParticipant(seededDraw[2 * matchNumber]),
      status |-> GetInitialMatchStatus(seededDraw[2 * matchNumber - 1],
                                       seededDraw[2 * matchNumber]),
      result |-> NoResult]]

SEGenerateInitialState(participants) ==
  LET drawSize == SEGetDrawSize(Len(participants))
      byeCount == drawSize - Len(participants)
      sortedParticipants == SESortParticipants(participants)
      bracketPositions == GenerateBracketPositions(drawSize)
      seededDraw == PlaceSeedsInBracket(sortedParticipants, bracketPositions, byeCount)
  IN [state |-> [format |-> "single_elimination",
                 drawSize |-> drawSize,
                 byeCount |-> byeCount,
                 bracketPositions |-> seededDraw,
                 currentRound |-> 1,
                 totalRounds |-> Log2(drawSize),
                 consolationEnabled |-> FALSE,
                 completed |-> FALSE],
      matches |-> GenerateInitialMatches(seededDraw, drawSize)]

---------------------------------------------------------------------------
(* SingleEliminationFormat.onMatchResult                                   *)

\* _findNextRoundMatch: a fresh descriptor of the match the current one feeds.
\* It carries a round and an index, and neither participant slot.
SEFindNextRoundMatch(state, currentMatch) ==
  LET n == ParseInt(Substring(currentMatch.match_number, 3))
      currentMatchIndex == IF n = NaN THEN NaN ELSE n - 1
  IN [round |-> currentMatch.round + 1,
      match_index |-> IF currentMatchIndex = NaN THEN NaN ELSE currentMatchIndex \div 2,
      participant_a |-> NoRef,
      participant_b |-> NoRef]

\* _updateNextRoundMatch: the slot is chosen by the last character of the source
\* match number, the status by the two slots of the descriptor it was given.
SEUpdateNextRoundMatch(nextMatch, winnerId, winnerName, sourceMatch) ==
  LET isFirstParticipant ==
        \/ EndsWith(sourceMatch.match_number, "1")
        \/ EndsWith(sourceMatch.match_number, "3")
        \/ EndsWith(sourceMatch.match_number, "5")
        \/ EndsWith(sourceMatch.match_number, "7")
      winner == ParticipantRef(winnerId, winnerName)
  IN [round |-> nextMatch.round,
      match_index |-> nextMatch.match_index,
      participant_a |-> IF isFirstParticipant THEN winner ELSE nextMatch.participant_a,
      participant_b |-> IF isFirstParticipant THEN nextMatch.participant_b ELSE winner,
      status |-> IF nextMatch.participant_a # NoRef /\ nextMatch.participant_b # NoRef
                 THEN "ready" ELSE "pending"]

\* _createConsolationMatch returns null: no consolation match is ever created.
SECreateConsolationMatch(loserId, loserName, sourceMatch) == <<>>

\* Mutant of SEIsRoundComplete: no round is ever taken to be complete.
SEIsRoundCompleteNever(state, round) == FALSE

SEIsRoundComplete(state, round) == TRUE

SECheckTournamentComplete(state) == state.currentRound > state.totalRounds

\* onMatchResult.  `input` is the object that was passed in as it reads after
\* the call: the returned state is a shallow copy whose own fields are assigned.
SEOnMatchResult(state, tournamentMatch, matchResult) ==
  LET updatedMatch == [tournamentMatch EXCEPT !.status = "completed",
                                              !.result = ResultOf(matchResult)]
      advanced ==
        IF tournamentMatch.round < state.totalRounds
        THEN <<SEUpdateNextRoundMatch(SEFindNextRoundMatch(state, tournamentMatch),
                                      matchResult.winner_id, matchResult.winner_name,
                                      tournamentMatch)>>
        ELSE <<>>
      newMatches ==
        IF state.consolationEnabled /\ tournamentMatch.round = 1
        THEN SECreateConsolationMatch(matchResult.loser_id, matchResult.loser_name,
                                      tournamentMatch)
        ELSE <<>>
      currentRound == IF SEIsRoundComplete(state, tournamentMatch.round)
                      THEN state.currentRound + 1 ELSE state.currentRound
      newState == [state EXCEPT !.currentRound = currentRound]
      completed == SECheckTournamentComplete(newState)
  IN [state |-> [newState EXCEPT !.completed = completed],
      updatedMatches |-> <<updatedMatch>> \o advanced,
      newMatches |-> newMatches,
      tournamentComplete |-> completed,
      input |-> state]

SEIsComplete(state) == state.completed

---------------------------------------------------------------------------
(* Single elimination: generation and play                                 *)

NoState == [format |-> "none"]

\* The participant list as the caller hands it over, last one first: seeded
\* 1..n, or without seeds.
SEParticipants(n, seeded) ==
  [i \in 1..n |-> Participant(n + 1 - i, IF seeded THEN n + 1 - i ELSE 0)]

\* A tournament of n participants that is about to be generated.
SEDraft(n, seeded) ==
  /\ entrants = SEParticipants(n, seeded)
  /\ state_blob = NoState
  /\ matches = <<>>
  /\ bracket = <<>>
  /\ callArg = NoState
  /\ callArgBefore = NoState
  /\ lastReturn = NoReturn
  /\ lastCall = NoCall
  /\ config = [format |-> "single_elimination"]
  /\ groups = <<>>
  /\ inflight = <<>>
  /\ standings = NoStandings
  /\ formats = RegisteredFormats

\* generateTournament: validation, then generateInitialState, whose
\* _sortParticipants sorts the list it was handed.
SEGenerateTournament ==
  /\ config.format = "single_elimination"
  /\ state_blob = NoState
  /\ SEValidateConfig(entrants)
  /\ LET generated == SEGenerateInitialState(entrants)
     IN /\ state_blob' = generated.state
        /\ matches' = generated.matches
        /\ callArg' = generated.state
        /\ callArgBefore' = generated.state
  /\ entrants' = SESortParticipants(entrants)
  /\ UNCHANGED <<bracket, lastReturn, lastCall, config, groups, inflight, standings, formats>>

\* The later-round matches after the update with a returned next-round
\* descriptor: the fields the descriptor carries are written over the match of
\* its round and index, the other fields of that match stay.
StoreAdvanced(held, descriptor) ==
  LET key == <<descriptor.round, descriptor.match_index>>
  IN IF key \in DOMAIN held
     THEN [held EXCEPT ![key] =
             [@ EXCEPT !.participant_a = IF descriptor.participant_a # NoRef
                                         THEN descriptor.participant_a ELSE @,
                       !.participant_b = IF descriptor.participant_b # NoRef
                                         THEN descriptor.participant_b ELSE @,
                       !.status = descriptor.status]]
     ELSE held @@ (key :> [round |-> descriptor.round,
                           match_number |-> MatchNumberString(descriptor.round,
                                                              descriptor.match_index + 1),
                           participant_a |-> descriptor.participant_a,
                           participant_b |-> descriptor.participant_b,
                           status |-> descriptor.status,
                           result |-> NoResult])

\* The match of `round` with 0-based index `index`.
SEMatchAt(round, index) ==
  IF round = 1 THEN matches[index + 1] ELSE bracket[<<round, index>>]

SEFinished(round, index) ==
  IF round = 1 THEN matches[index + 1].status = "completed"
  ELSE <<round, index>> \in DOMAIN bracket /\ bracket[<<round, index>>].status = "completed"

\* getNextPlayableMatches: a ready match, or a pending one whose two feeding
\* matches are completed.
SEPlayable(round, index) ==
  IF round = 1 THEN matches[index + 1].status = "ready"
  ELSE /\ <<round, index>> \in DOMAIN bracket
       /\ bracket[<<round, index>>].status \in {"ready", "pending"}
       /\ SEFinished(round - 1, 2 * index)
       /\ SEFinished(round - 1, 2 * index + 1)

\* onMatchResult is applied to a playable match with one of its participants
\* as the winner; the returned state replaces the state and the returned matches
\* are written over the ones held.
SEApplyResult(round, index, aWins) ==
  /\ state_blob.format = "single_elimination"
  /\ round \in 1..state_blob.totalRounds
  /\ index \in 0..(state_blob.drawSize \div (2^round) - 1)
  /\ SEPlayable(round, index)
  /\ LET match == SEMatchAt(round, index)
         matchResult == ResultFor(match, aWins)
         result == SEOnMatchResult(state_blob, match, matchResult)
         finished == IF round = 1 THEN bracket
                     ELSE [bracket EXCEPT ![<<round, index>>] = result.updatedMatches[1]]
     IN /\ matchResult.winner_id # NULL
        /\ state_blob' = result.state
        /\ matches' = IF round = 1
                      THEN [matches EXCEPT ![index + 1] = result.updatedMatches[1]]
                      ELSE matches
        /\ bracket' = IF Len(result.updatedMatches) > 1
                      THEN StoreAdvanced(finished, result.updatedMatches[2])
                      ELSE finished
        /\ callArg' = result.input
        /\ callArgBefore' = state_blob
        /\ lastReturn' = [updatedMatches |-> result.updatedMatches,
                          tournamentComplete |-> result.tournamentComplete]
        /\ lastCall' = [match |-> index + 1, round |-> round, result |-> matchResult]
  /\ UNCHANGED <<entrants, config, groups, inflight, standings, formats>>

MaxSEPlayers == 8

InitSE == \E n \in SEMinParticipants..MaxSEPlayers, seeded \in BOOLEAN : SEDraft(n, seeded)

NextSE ==
  \/ SEGenerateTournament
  \/ \E round \in 1..Log2(SEGetDrawSize(MaxSEPlayers)),
        index \in 0..(SEGetDrawSize(MaxSEPlayers) \div 2 - 1),
        aWins \in BOOLEAN : SEApplyResult(round, index, aWins)

SpecSE == InitSE /\ [][NextSE]_vars

\* Generation alone, for every participant count validateConfig accepts.
InitGen ==
  \E n \in SEMinParticipants..SEMaxParticipants, seeded \in BOOLEAN : SEDraft(n, seeded)

NextGen == SEGenerateTournament

SpecGen == InitGen /\ [][NextGen]_vars

\* onMatchResult applied to a match of any round and number of the largest
\* draw, between two of the entrants.
SEAdvanceCall(round, number, aWins) ==
  /\ round \in 1..state_blob.totalRounds
  /\ number \in 1..(state_blob.drawSize \div (2^round))
  /\ LET match == [round |-> round,
                   match_number |-> MatchNumberString(round, number),
                   participant_a |-> ParticipantRef(entrants[1].id, entrants[1].name),
                   participant_b |-> ParticipantRef(entrants[2].id, entrants[2].name),
                   status |-> "ready",
                   result |-> NoResult]
         matchResult == ResultFor(match, aWins)
         result == SEOnMatchResult(state_blob, match, matchResult)
     IN /\ state_blob' = result.state
        /\ callArg' = result.input
        /\ callArgBefore' = state_blob
        /\ lastReturn' = [updatedMatches |-> result.updatedMatches,
                          tournamentComplete |-> result.tournamentComplete]
        /\ lastCall' = [match |-> number, round |-> round, result |-> matchResult]
  /\ UNCHANGED <<entrants, matches, bracket, config, groups, inflight, standings, formats>>

MaxAdvanceCalls == 2

InitAdvance ==
  LET generated == SEGenerateInitialState(SEParticipants(SEMaxParticipants, TRUE))
  IN /\ entrants = SEParticipants(SEMaxParticipants, TRUE)
     /\ state_blob = generated.state
     /\ matches = generated.matches
     /\ bracket = <<>>
     /\ callArg = generated.state
     /\ callArgBefore = generated.state
     /\ lastReturn = NoReturn
     /\ lastCall = NoCall
     /\ config = [format |-> "single_elimination"]
     /\ groups = <<>>
     /\ inflight = <<>>
     /\ standings = NoStandings
     /\ formats = RegisteredFormats

NextAdvance ==
  \E round \in 1..Log2(SEMaxParticipants),
     number \in 1..(SEMaxParticipants \div 2),
     aWins \in BOOLEAN :
       /\ state_blob.currentRound <= MaxAdvanceCalls
       /\ SEAdvanceCall(round, number, aWins)

SpecAdvance == InitAdvance /\ [][NextAdvance]_vars

---------------------------------------------------------------------------
(* Monrad: properties                                                      *)

MonradSize == state_blob.effectiveParticipantCount

\* The document index of the match of `round` whose pairing-table pair holds `seed`.
MatchOfSeed(round, seed) ==
  LET pairs == GetMonradPairs(MonradSize, round)
  IN (round - 1) * Len(pairs)
     + (CHOOSE i \in 1..Len(pairs) : seed \in {pairs[i][1], pairs[i][2]})

\* The pairing-table pair of the match stored at document index m.
PairOfDoc(m) ==
  LET pairs == GetMonradPairs(MonradSize, matches[m].round)
  IN pairs[m - (matches[m].round - 1) * Len(pairs)]

HasResult(doc) == doc.status = "completed" /\ doc.result.winner_participant_id # NULL

Round1Docs == {m \in 1..Len(matches) : matches[m].round = 1}

\* The four round-1 results are in and nothing else has been reported.
Round1Reported ==
  /\ state_blob.participantCount = 8
  /\ \A m \in 1..Len(matches) : HasResult(matches[m]) <=> matches[m].round = 1

ReadyMatches(docs, round) ==
  {[match_number |-> docs[i].match_number,
    participant_a |-> docs[i].participant_a,
    participant_b |-> docs[i].participant_b] :
     i \in {j \in 1..Len(docs) : docs[j].round = round /\ docs[j].status = "ready"}}

\* The handler applied to the round-1 matches first to last, each with the
\* winner the stored result names, starting from the generated tournament.
RECURSIVE InMatchOrder(_, _, _)
InMatchOrder(handled, m, last) ==
  IF m > last THEN handled
  ELSE LET aWins == matches[m].result.winner_participant_id
                      = matches[m].participant_a.participant_id
           next == HandleResult(handled.state, handled.matches, m,
                                ResultFor(handled.matches[m], aWins))
       IN InMatchOrder(next, m + 1, last)

Round1InMatchOrder ==
  LET generated == MonradGenerateInitialState(MonradParticipants(8))
  IN InMatchOrder([state |-> generated.state,
                   matches |-> CreateMatchDocs(generated.matches)],
                  1, Cardinality(Round1Docs))

\* C1: with 8 real participants, whatever the order in which the four round-1
\* results were processed, the seed table and the ready round-2 matches (with
\* their participants) are the ones obtained by processing the same results in
\* match order.
C1_OrderIndependent ==
  Round1Reported =>
    /\ state_blob.seedPositions = Round1InMatchOrder.state.seedPositions
    /\ ReadyMatches(matches, 2) = ReadyMatches(Round1InMatchOrder.matches, 2)

\* C1 witness: round 1 was reported with match 1 last, and its lower seed lost.
C1_Witness ==
  /\ Round1Reported
  /\ lastCall.match = 1
  /\ matches[1].result.winner_participant_id = matches[1].participant_b.participant_id
  /\ Cardinality(ReadyMatches(matches, 2)) = 4

SlotsOf(doc) == {doc.participant_a, doc.participant_b}

C4_InputStateUntouched == callArg = callArgBefore

---------------------------------------------------------------------------
(* Single elimination: properties                                          *)

SEGenerated == state_blob.format = "single_elimination"

\* The winner a completed match records.
SEWinnerOf(match) == match.result.winner_participant_id

\* C5: with 4 participants, once onMatchResult has been applied to both
\* round-1 matches and not yet to the final, the round-2 final is ready and its
\* two slots hold the two round-1 winners.
C5_FinalReadyWithWinners ==
  (/\ SEGenerated
   /\ Len(entrants) = 4
   /\ HasResult(matches[1]) /\ HasResult(matches[2])
   /\ lastCall.round = 1)
  => /\ <<2, 0>> \in DOMAIN bracket
     /\ bracket[<<2, 0>>].status = "ready"
     /\ {bracket[<<2, 0>>].participant_a.participant_id,
         bracket[<<2, 0>>].participant_b.participant_id}
          = {SEWinnerOf(matches[1]), SEWinnerOf(matches[2])}

\* C6: the winner of the match with 0-based index i of a round before the
\* final is placed in the next round's match floor(i/2), in slot A when i is
\* even and in slot B when i is odd.
C6_AdvanceByIndex ==
  (SEGenerated /\ lastCall.match # 0 /\ lastCall.round < state_blob.totalRounds)
  => LET i == lastCall.match - 1
         next == lastReturn.updatedMatches[2]
         winner == ParticipantRef(lastCall.result.winner_id, lastCall.result.winner_name)
     IN /\ next.round = lastCall.round + 1
        /\ next.match_index = i \div 2
        /\ IF i % 2 = 0
           THEN next.participant_a = winner /\ next.participant_b = NoRef
           ELSE next.participant_b = winner /\ next.participant_a = NoRef

\* Every match of every round, the final included, is completed.
SEAllApplied ==
  /\ SEGenerated
  /\ \A round \in 1..state_blob.totalRounds :
       \A index \in 0..(state_blob.drawSize \div (2^round) - 1) : SEFinished(round, index)

\* C7: once every match of every round including the final is completed,
\* isComplete(state) is true and the last onMatchResult returned
\* tournamentComplete = true.
C7_CompleteAfterFinal ==
  SEAllApplied => SEIsComplete(state_blob) /\ lastReturn.tournamentComplete

\* C7 witness: a draw of 8 whose seven matches, the final last, have results.
C7_Witness ==
  /\ SEAllApplied
  /\ state_blob.totalRounds = 3
  /\ state_blob.byeCount = 0
  /\ lastCall.round = 3
  /\ HasResult(bracket[<<3, 0>>])

\* The real participants of a generated match.
SERealSlots(match) ==
  {ref \in {match.participant_a, match.participant_b} : ref.type = "participant"}

\* C8: every generated match with status completed carries a result whose
\* winner is the real participant of that match.
C8_CompletedHasWinner ==
  SEGenerated =>
    \A m \in 1..Len(matches) :
      matches[m].status = "completed" =>
        /\ HasResult(matches[m])
        /\ \E ref \in SERealSlots(matches[m]) : SEWinnerOf(matches[m]) = ref.participant_id

RECURSIVE IsPowerOfTwo(_)
IsPowerOfTwo(d) == d = 1 \/ (d > 1 /\ d % 2 = 0 /\ IsPowerOfTwo(d \div 2))

\* C9: for every participant count N in 2..128 the generated drawSize is the
\* smallest power of two >= N, byeCount = drawSize - N, totalRounds =
\* log2(drawSize), and exactly drawSize/2 matches, all of round 1, are generated.
C9_DrawShape ==
  SEGenerated =>
    LET N == Len(entrants)
        drawSize == state_blob.drawSize
    IN /\ IsPowerOfTwo(drawSize)
       /\ drawSize >= N
       /\ \A d \in N..(drawSize - 1) : ~IsPowerOfTwo(d)
       /\ state_blob.byeCount = drawSize - N
       /\ 2^state_blob.totalRounds = drawSize
       /\ Len(matches) * 2 = drawSize
       /\ \A m \in 1..Len(matches) : matches[m].round = 1

\* C9 witness: generation for 100 participants, which rounds up to a draw of 128.
C9_Witness ==
  /\ SEGenerated
  /\ Len(entrants) = 100
  /\ state_blob.drawSize = 128
  /\ state_blob.byeCount = 28
  /\ Len(matches) = 64

\* The participants whose round-1 opponent is a bye.
SEFacingBye ==
  {ref.participant_id :
     ref \in UNION {SERealSlots(matches[m]) :
                      m \in {k \in 1..Len(matches) :
                               \/ matches[k].participant_a.type = "bye"
                               \/ matches[k].participant_b.type = "bye"}}}

\* C10: with b > 0 byes, the participants whose round-1 opponent is a bye are
\* exactly the b highest-ranked participants in seeding order, whether or not
\* the participants carry seeds.
C10_ByesToTopRanked ==
  (SEGenerated /\ state_blob.byeCount > 0) =>
    LET ranked == SESortParticipants(entrants)
    IN SEFacingBye = {ranked[k].id : k \in 1..state_blob.byeCount}

\* The seed the entrant with this id was given (0: none).
SeedOfId(id) ==
  LET hits == {i \in 1..Len(entrants) : entrants[i].id = id}
  IN IF hits = {} THEN 0 ELSE entrants[CHOOSE i \in hits : TRUE].seed

\* The seeds of the two participants of a generated match.
SESeedsOf(match) ==
  {SeedOfId(match.participant_a.participant_id), SeedOfId(match.participant_b.participant_id)}

FourSeeded == Len(entrants) = 4 /\ {entrants[i].seed : i \in 1..4} = 1..4

\* C11: generation with 4 participants seeded 1..4 yields drawSize 4, no byes
\* and exactly two round-1 matches, both ready: seed 1 against seed 4 and
\* seed 2 against seed 3.
C11_FourSeededDraw ==
  (SEGenerated /\ FourSeeded /\ lastCall = NoCall) =>
    /\ state_blob.drawSize = 4
    /\ state_blob.byeCount = 0
    /\ Len(matches) = 2
    /\ \A m \in 1..Len(matches) :
         /\ matches[m].round = 1
         /\ matches[m].status = "ready"
         /\ matches[m].participant_a.type = "participant"
         /\ matches[m].participant_b.type = "participant"
    /\ {SESeedsOf(matches[m]) : m \in 1..Len(matches)} = {{1, 4}, {2, 3}}

\* C11 witness: the generated tournament of four participants seeded 1..4.
C11_Witness ==
  /\ SEGenerated
  /\ FourSeeded
  /\ lastCall = NoCall
  /\ Len(matches) = 2

---------------------------------------------------------------------------
(* RoundRobinFormat and PoolsKnockoutFormat: groups and fixtures           *)

RRMinParticipants == 3
RRMaxParticipants == 20
RRMinGroupSize == 3

PoolsMinParticipants == 8
PoolsDefaultGroupSize == 4
PoolsMinGroupSize == 3
PoolsDefaultAdvance == 2
PoolsMinQualifiers == 4

\* config.groups?.target_size || fallback
TargetSizeOr(cfg, fallback) ==
  IF "target_size" \in DOMAIN cfg /\ cfg.target_size # 0 THEN cfg.target_size
  ELSE fallback

\* config.groups?.advance_per_group || 2
AdvancePerGroup(cfg) ==
  IF "advance_per_group" \in DOMAIN cfg /\ cfg.advance_per_group # 0
  THEN cfg.advance_per_group
  ELSE PoolsDefaultAdvance

RRValidateConfig(cfg, participants) ==
  /\ Len(participants) >= RRMinParticipants
  /\ Len(participants) <= RRMaxParticipants
  /\ TargetSizeOr(cfg, Len(participants)) >= RRMinGroupSize

PoolsValidateConfig(cfg, participants) ==
  LET targetGroupSize == TargetSizeOr(cfg, PoolsDefaultGroupSize)
      advancePerGroup == AdvancePerGroup(cfg)
  IN /\ Len(participants) >= PoolsMinParticipants
     /\ targetGroupSize >= PoolsMinGroupSize
     /\ advancePerGroup < targetGroupSize
     /\ (Len(participants) \div targetGroupSize) * advancePerGroup >= PoolsMinQualifiers

\* _sortParticipants of both formats: the comparator of single elimination.
GroupSortParticipants(participants) == SESortParticipants(participants)

\* Mutant of GetSnakeGroupIndex: every row is dealt left to right.
GetGroupIndexRoundTheTable(participantIndex, groupCount) ==
  participantIndex % groupCount

GetSnakeGroupIndex(participantIndex, groupCount) ==
  LET row == participantIndex \div groupCount
      col == participantIndex % groupCount
  IN IF row % 2 = 0 THEN col ELSE groupCount - 1 - col

\* The elements of a set of integers in ascending order.
Ascending(S) ==
  [k \in 1..Cardinality(S) |-> CHOOSE i \in S : Cardinality({j \in S : j < i}) = k - 1]

LowerLetters == <<"a", "b", "c", "d", "e", "f", "g", "h", "i", "j", "k", "l", "m",
                  "n", "o", "p", "q", "r", "s", "t", "u", "v", "w", "x", "y", "z">>

RRGroupName(i) == <<"G", "r", "o", "u", "p", " ", Letters[i + 1]>>
RRGroupId(i) == <<"g", "r", "o", "u", "p", "_", LowerLetters[i + 1]>>
PoolName(i) == <<"P", "o", "o", "l", " ", Letters[i + 1]>>
PoolId(i) == <<"p", "o", "o", "l", "_", LowerLetters[i + 1]>>

\* The members the forEach of _createGroups pushes into the group with 0-based
\* index g: the sorted participants whose snake index is g, in sorted order.
SnakeMembers(sortedParticipants, g, groupCount) ==
  LET indexes == Ascending({i \in 0..(Len(sortedParticipants) - 1) :
                              GetSnakeGroupIndex(i, groupCount) = g})
  IN [k \in 1..Len(indexes) |-> sortedParticipants[indexes[k] + 1]]

\* Math.ceil(participants.length / targetGroupSize)
GroupCountFor(participantCount, targetGroupSize) ==
  (participantCount + targetGroupSize - 1) \div targetGroupSize

RRCreateGroups(participants, targetGroupSize) ==
  IF Len(participants) <= targetGroupSize
  THEN <<[name |-> RRGroupName(0),
          participants |-> GroupSortParticipants(participants),
          _id |-> RRGroupId(0)]>>
  ELSE LET groupCount == GroupCountFor(Len(participants), targetGroupSize)
           sortedParticipants == GroupSortParticipants(participants)
       IN [g \in 1..groupCount |->
             [name |-> RRGroupName(g - 1),
              participants |-> SnakeMembers(sortedParticipants, g - 1, groupCount),
              _id |-> RRGroupId(g - 1)]]

PoolsCreateGroups(participants, targetGroupSize) ==
  LET groupCount == GroupCountFor(Len(participants), targetGroupSize)
      sortedParticipants == GroupSortParticipants(participants)
  IN [g \in 1..groupCount |->
        [name |-> PoolName(g - 1),
         participants |-> SnakeMembers(sortedParticipants, g - 1, groupCount),
         _id |-> PoolId(g - 1)]]

\* The index pairs the double loop visits, in its order: i ascending, and for
\* each i every j above it ascending (1-based).
RECURSIVE FixturePairsFrom(_, _)
FixturePairsFrom(i, n) ==
  IF i > n THEN <<>>
  ELSE [k \in 1..(n - i) |-> <<i, i + k>>] \o FixturePairsFrom(i + 1, n)

\* Mutant of FixturePairs: the inner loop starts one place later.
FixturePairsSkippingNeighbour(n) ==
  SelectSeq(FixturePairsFrom(1, n), LAMBDA pair : pair[2] > pair[1] + 1)

FixturePairs(n) == FixturePairsFrom(1, n)

\* The value of `round` when fixture k of a group of n is created: it starts
\* at 1 and goes up after a push that leaves matchNumber = t with
\* t % Math.floor(n / 2) === 1.
FixtureRound(k, n) ==
  1 + Cardinality({t \in 2..k : (n \div 2) > 0 /\ t % (n \div 2) = 1})

GroupFixture(group, round, numberPrefix, k, pair) ==
  [round |-> round,
   stage |-> "group",
   match_number |-> numberPrefix \o <<"M">> \o Dec(k),
   group_id |-> group._id,
   participant_a |-> ParticipantRef(group.participants[pair[1]].id,
                                    group.participants[pair[1]].name),
   participant_b |-> ParticipantRef(group.participants[pair[2]].id,
                                    group.participants[pair[2]].name),
   status |-> "ready",
   result |-> NoResult]

\* groupIndex is 0-based, as in the source.
GenerateRoundRobinFixtures(group, groupIndex) ==
  LET n == Len(group.participants)
      pairs == FixturePairs(n)
  IN [k \in 1..Len(pairs) |->
        GroupFixture(group, FixtureRound(k, n), <<"G">> \o Dec(groupIndex + 1), k, pairs[k])]

GeneratePoolMatches(group, groupIndex) ==
  LET pairs == FixturePairs(Len(group.participants))
  IN [k \in 1..Len(pairs) |->
        GroupFixture(group, 1, <<"P">> \o Dec(groupIndex + 1), k, pairs[k])]

\* matches.push(...groupMatches) for the groups from index g on.
RECURSIVE RRFixturesFrom(_, _)
RRFixturesFrom(madeGroups, g) ==
  IF g > Len(madeGroups) THEN <<>>
  ELSE GenerateRoundRobinFixtures(madeGroups[g], g - 1) \o RRFixturesFrom(madeGroups, g + 1)

RECURSIVE PoolFixturesFrom(_, _)
PoolFixturesFrom(madeGroups, g) ==
  IF g > Len(madeGroups) THEN <<>>
  ELSE GeneratePoolMatches(madeGroups[g], g - 1) \o PoolFixturesFrom(madeGroups, g + 1)

\* Math.ceil((groupSize - 1) / 2)
RRCalculateTotalRounds(groupSize) == groupSize \div 2

DefaultTiebreakers ==
  <<"wins", "h2h", "game_diff", "point_diff", "fewest_walkovers", "random">>

RRGenerateInitialState(cfg, participants) ==
  LET groupSize == TargetSizeOr(cfg, Len(participants))
      madeGroups == RRCreateGroups(participants, groupSize)
  IN [state |-> [format |-> "round_robin",
                 totalRounds |-> RRCalculateTotalRounds(groupSize),
                 currentRound |-> 1,
                 groupCount |-> Len(madeGroups),
                 tiebreakers |-> IF "tiebreakers" \in DOMAIN cfg THEN cfg.tiebreakers
                                 ELSE DefaultTiebreakers,
                 completed |-> FALSE],
      matches |-> RRFixturesFrom(madeGroups, 1),
      groups |-> madeGroups]

\* Math.pow(2, Math.ceil(Math.log2(qualifierCount)))
PoolsGetKnockoutDrawSize(qualifierCount) ==
  2^(CHOOSE k \in 0..8 : 2^k >= qualifierCount /\ (k = 0 \/ 2^(k - 1) < qualifierCount))

PoolsGenerateInitialState(cfg, participants) ==
  LET groupSize == TargetSizeOr(cfg, PoolsDefaultGroupSize)
      advancePerGroup == AdvancePerGroup(cfg)
      madeGroups == PoolsCreateGroups(participants, groupSize)
      totalQualifiers == Len(madeGroups) * advancePerGroup
  IN [state |-> [format |-> "pools_knockout",
                 phase |-> "pools",
                 groupCount |-> Len(madeGroups),
                 advancePerGroup |-> advancePerGroup,
                 totalQualifiers |-> totalQualifiers,
                 knockoutDrawSize |-> PoolsGetKnockoutDrawSize(totalQualifiers),
                 poolsComplete |-> FALSE,
                 knockoutGenerated |-> FALSE,
                 completed |-> FALSE],
      matches |-> PoolFixturesFrom(madeGroups, 1),
      groups |-> madeGroups]

---------------------------------------------------------------------------
(* RoundRobinFormat and PoolsKnockoutFormat: onMatchResult                 *)

RRCalculateGroupStandings(groupId, matchResult, tiebreakers) == <<>>

RRCheckAllGroupsComplete(state) == FALSE

RROnMatchResult(state, tournamentMatch, matchResult) ==
  LET updatedMatch == [tournamentMatch EXCEPT !.status = "completed",
                                              !.result = ResultOf(matchResult)]
      groupStandings == RRCalculateGroupStandings(tournamentMatch.group_id, matchResult,
                                                  state.tiebreakers)
      newState == [state EXCEPT !.completed = RRCheckAllGroupsComplete(state)]
  IN [state |-> newState,
      updatedMatches |-> <<updatedMatch>>,
      newMatches |-> <<>>,
      standingsUpdates |-> <<[group_id |-> tournamentMatch.group_id,
                              standings |-> groupStandings]>>,
      tournamentComplete |-> newState.completed]

PoolsCalculatePoolStandings(groupId, matchResult) == <<>>

PoolsAreAllPoolsComplete(state) == FALSE

PoolsGenerateKnockoutMatches(state, poolStandings) == <<>>

PoolsProcessKnockoutResult(state, match, result) ==
  [updatedMatches |-> <<>>, newMatches |-> <<>>, tournamentComplete |-> FALSE]

PoolsOnMatchResult(state, tournamentMatch, matchResult) ==
  LET updatedMatch == [tournamentMatch EXCEPT !.status = "completed",
                                              !.result = ResultOf(matchResult)]
  IN IF state.phase = "pools"
     THEN LET standingsUpdates ==
                <<[group_id |-> tournamentMatch.group_id,
                   standings |-> PoolsCalculatePoolStandings(tournamentMatch.group_id,
                                                             matchResult)]>>
              allComplete == PoolsAreAllPoolsComplete(state)
              newState == IF allComplete
                          THEN [state EXCEPT !.poolsComplete = TRUE,
                                             !.phase = "knockout",
                                             !.knockoutGenerated = TRUE]
                          ELSE state
          IN [state |-> newState,
              updatedMatches |-> <<updatedMatch>>,
              newMatches |-> IF allComplete
                             THEN PoolsGenerateKnockoutMatches(newState, standingsUpdates)
                             ELSE <<>>,
              standingsUpdates |-> standingsUpdates,
              tournamentComplete |-> newState.completed]
     ELSE LET knockoutUpdates == PoolsProcessKnockoutResult(state, tournamentMatch,
                                                            matchResult)
              newState == IF knockoutUpdates.tournamentComplete
                          THEN [state EXCEPT !.completed = TRUE]
                          ELSE state
          IN [state |-> newState,
              updatedMatches |-> <<updatedMatch>> \o knockoutUpdates.updatedMatches,
              newMatches |-> knockoutUpdates.newMatches,
              standingsUpdates |-> <<>>,
              tournamentComplete |-> newState.completed]

---------------------------------------------------------------------------
(* Round robin and pools: generation and play                              *)

MaxPoolPlayers == 10
MaxTargetSize == 5
MaxPlayedFixtures == 7

\* The config of a tournament with groups: groups.target_size absent (0) or given.
GroupsConfig(format, targetSize) ==
  IF targetSize = 0 THEN [format |-> format]
  ELSE [format |-> format, target_size |-> targetSize]

\* The participant list as the caller hands it over, last one first: the ids up
\* to seededCount are seeded with their id, the others have no seed.
GroupParticipants(n, seededCount) ==
  [i \in 1..n |-> Participant(n + 1 - i, IF n + 1 - i <= seededCount THEN n + 1 - i ELSE 0)]

\* A round-robin or pools tournament of n participants that is about to be
\* generated.
GroupsDraft(format, n, seededCount, targetSize) ==
  /\ entrants = GroupParticipants(n, seededCount)
  /\ state_blob = NoState
  /\ matches = <<>>
  /\ bracket = <<>>
  /\ callArg = NoState
  /\ callArgBefore = NoState
  /\ lastReturn = NoReturn
  /\ lastCall = NoCall
  /\ config = GroupsConfig(format, targetSize)
  /\ groups = <<>>
  /\ inflight = <<>>
  /\ standings = NoStandings
  /\ formats = RegisteredFormats

\* generateTournament for round robin: validation, then generateInitialState,
\* whose _createGroups sorts the list it was handed.
RRGenerateTournament ==
  /\ config.format = "round_robin"
  /\ state_blob = NoState
  /\ RRValidateConfig(config, entrants)
  /\ \E generated \in {RRGenerateInitialState(config, entrants)} :
       /\ state_blob' = generated.state
       /\ matches' = generated.matches
       /\ groups' = generated.groups
       /\ callArg' = generated.state
       /\ callArgBefore' = generated.state
  /\ entrants' = GroupSortParticipants(entrants)
  /\ UNCHANGED <<bracket, lastReturn, lastCall, config, inflight, standings, formats>>

\* generateTournament for pools: validation, then generateInitialState, whose
\* _createGroups sorts the list it was handed.
PoolsGenerateTournament ==
  /\ config.format = "pools_knockout"
  /\ state_blob = NoState
  /\ PoolsValidateConfig(config, entrants)
  /\ \E generated \in {PoolsGenerateInitialState(config, entrants)} :
       /\ state_blob' = generated.state
       /\ matches' = generated.matches
       /\ groups' = generated.groups
       /\ callArg' = generated.state
       /\ callArgBefore' = generated.state
  /\ entrants' = GroupSortParticipants(entrants)
  /\ UNCHANGED <<bracket, lastReturn, lastCall, config, inflight, standings, formats>>

\* What a group-stage onMatchResult returned is stored: the returned state and
\* the completed match replace the ones held.
GroupsStoreResult(m, matchResult, result) ==
  /\ state_blob' = result.state
  /\ matches' = [matches EXCEPT ![m] = result.updatedMatches[1]]
  /\ callArg' = state_blob
  /\ callArgBefore' = state_blob
  /\ lastReturn' = [updatedMatches |-> result.updatedMatches,
                    tournamentComplete |-> result.tournamentComplete,
                    standingsUpdates |-> result.standingsUpdates]
  /\ lastCall' = [match |-> m, round |-> matches[m].round, result |-> matchResult]
  /\ UNCHANGED <<entrants, bracket, config, groups, inflight, standings, formats>>

\* onMatchResult is applied to a fixture that is ready, with one of its two
\* participants as the winner.
RRApplyResult(m, aWins) ==
  /\ state_blob.format = "round_robin"
  /\ Len(matches) <= MaxPlayedFixtures
  /\ m \in 1..Len(matches)
  /\ matches[m].status = "ready"
  /\ \E matchResult \in {ResultFor(matches[m], aWins)} :
       \E result \in {RROnMatchResult(state_blob, matches[m], matchResult)} :
         GroupsStoreResult(m, matchResult, result)

PoolsApplyResult(m, aWins) ==
  /\ state_blob.format = "pools_knockout"
  /\ Len(matches) <= MaxPlayedFixtures
  /\ m \in 1..Len(matches)
  /\ matches[m].status = "ready"
  /\ \E matchResult \in {ResultFor(matches[m], aWins)} :
       \E result \in {PoolsOnMatchResult(state_blob, matches[m], matchResult)} :
         GroupsStoreResult(m, matchResult, result)

\* All seeded, half of them seeded, or none.
InitGroups ==
  \E targetSize \in {0} \cup (RRMinGroupSize..MaxTargetSize) :
    \/ \E n \in RRMinParticipants..RRMaxParticipants :
         \E seededCount \in {0, n \div 2, n} :
           GroupsDraft("round_robin", n, seededCount, targetSize)
    \/ \E n \in PoolsMinParticipants..MaxPoolPlayers :
         \E seededCount \in {0, n \div 2, n} :
           GroupsDraft("pools_knockout", n, seededCount, targetSize)

NextGroups ==
  \/ RRGenerateTournament
  \/ PoolsGenerateTournament
  \/ \E m \in 1..MaxPlayedFixtures, aWins \in BOOLEAN : RRApplyResult(m, aWins)
  \/ \E m \in 1..MaxPlayedFixtures, aWins \in BOOLEAN : PoolsApplyResult(m, aWins)

SpecGroups == InitGroups /\ [][NextGroups]_vars

---------------------------------------------------------------------------
(* All formats together                                                    *)

InitFormats == Init \/ InitSE \/ InitGroups

NextFormats == Next \/ NextSE \/ NextGroups

SpecFormats == InitFormats /\ [][NextFormats]_vars

ReadyWithBothParticipants(match) ==
  match.status = "ready" =>
    /\ match.participant_a.type = "participant"
    /\ match.participant_b.type = "participant"

\* C12: in every reachable state of every format, a match whose status is ready
\* has both participant_a and participant_b of type participant: the generated
\* matches, the matches onMatchResult returned, and the Monrad matches after
\* the placeholder resolution of the server.
C12_ReadyHasBothParticipants ==
  /\ \A m \in 1..Len(matches) : ReadyWithBothParticipants(matches[m])
  /\ \A key \in DOMAIN bracket : ReadyWithBothParticipants(bracket[key])
  /\ \A u \in 1..Len(lastReturn.updatedMatches) :
       ReadyWithBothParticipants(lastReturn.updatedMatches[u])

\* C12 witness: a Monrad result has been handled and the placeholder resolution
\* has made a match of the next round ready.
C12_Witness ==
  /\ config.format = "monrad"
  /\ lastCall # NoCall
  /\ \E m \in 1..Len(matches) :
       /\ matches[m].round = lastCall.round + 1
       /\ matches[m].status = "ready"

---------------------------------------------------------------------------
(* server.js: result handlers that overlap (Monrad)                        *)
(*                                                                         *)
(* The handler is an async function: between two awaits it runs alone, and *)
(* at every await another handler may run.  Each action below is the code  *)
(* from one await on the database to the next.                             *)

MaxHandlers == 2

NoOutcome == [state |-> NoState, updatedMatches |-> <<>>, tournamentComplete |-> FALSE]

\* The request has arrived: params and body are read, nothing else is.
NewHandler(m, matchResult) ==
  [match |-> m,
   matchResult |-> matchResult,
   pc |-> "findTournament",
   tournament |-> NoState,
   tournamentMatch |-> NoRef,
   result |-> NoOutcome,
   nextRoundMatches |-> <<>>,
   availableParticipantIds |-> {},
   cursor |-> 0]

\* A result is submitted for a match that is ready to play.
ReceiveResult(m, aWins) ==
  /\ config.format = "monrad"
  /\ Len(inflight) < MaxHandlers
  /\ matches[m].status = "ready"
  /\ UpdateSeedPositionsDefined(state_blob, matches[m])
  /\ inflight' = Append(inflight, NewHandler(m, ResultFor(matches[m], aWins)))
  /\ UNCHANGED <<entrants, state_blob, matches, bracket, callArg, callArgBefore,
                 lastReturn, lastCall, config, groups, standings, formats>>

SharedUnchanged ==
  UNCHANGED <<entrants, bracket, callArg, callArgBefore, lastReturn, lastCall,
              config, groups, standings, formats>>

\* await Tournament.findById(tournamentId)
FindTournament(h) ==
  /\ inflight[h].pc = "findTournament"
  /\ inflight' = [inflight EXCEPT ![h].tournament = state_blob,
                                  ![h].pc = "findMatch"]
  /\ UNCHANGED <<state_blob, matches>>
  /\ SharedUnchanged

\* await TournamentMatch.findById(matchId), the read of the groups, and the
\* call of processMatchResult on what was read.
FindMatchAndProcess(h) ==
  /\ inflight[h].pc = "findMatch"
  /\ \E processed \in {MonradOnMatchResult(inflight[h].tournament,
                                           matches[inflight[h].match],
                                           inflight[h].matchResult)} :
       inflight' = [inflight EXCEPT
                      ![h].tournamentMatch = matches[inflight[h].match],
                      ![h].result = [state |-> processed.state,
                                     updatedMatches |-> processed.updatedMatches,
                                     tournamentComplete |-> processed.tournamentComplete],
                      ![h].pc = "saveTournament"]
  /\ UNCHANGED <<state_blob, matches>>
  /\ SharedUnchanged

\* tournament.state_blob = result.state; await tournament.save()
SaveTournament(h) ==
  /\ inflight[h].pc = "saveTournament"
  /\ state_blob' = inflight[h].result.state
  /\ inflight' = [inflight EXCEPT ![h].pc = "updateMatches"]
  /\ UNCHANGED matches
  /\ SharedUnchanged

\* findByIdAndUpdate(match._id, match) for the returned match; then, when there
\* is a next round, on to the placeholder resolution.
UpdateMatches(h) ==
  /\ inflight[h].pc = "updateMatches"
  /\ matches' = [matches EXCEPT ![inflight[h].match] = inflight[h].result.updatedMatches[1]]
  /\ inflight' = [inflight EXCEPT ![h].pc =
                    IF inflight[h].tournamentMatch.round + 1
                         <= inflight[h].result.state.totalRounds
                    THEN "findNextRound" ELSE "done"]
  /\ UNCHANGED state_blob
  /\ SharedUnchanged

\* The find of the next round's matches that have a seed_position placeholder.
FindNextRound(h) ==
  /\ inflight[h].pc = "findNextRound"
  /\ LET nextRound == inflight[h].tournamentMatch.round + 1
         found == Ascending({i \in 1..Len(matches) :
                               /\ matches[i].round = nextRound
                               /\ (matches[i].participant_a.type = "seed_position"
                                   \/ matches[i].participant_b.type = "seed_position")})
     IN inflight' = [inflight EXCEPT
                       ![h].nextRoundMatches =
                          [k \in 1..Len(found) |-> [index |-> found[k], doc |-> matches[found[k]]]],
                       ![h].pc = "delay"]
  /\ UNCHANGED <<state_blob, matches>>
  /\ SharedUnchanged

\* After the delay: the find of the completed matches of the current round.
FindCompleted(h) ==
  /\ inflight[h].pc = "delay"
  /\ inflight' = [inflight EXCEPT
                    ![h].availableParticipantIds =
                       AvailableParticipantIds(matches, inflight[h].tournamentMatch.round),
                    ![h].cursor = 1,
                    ![h].pc = "resolve"]
  /\ UNCHANGED <<state_blob, matches>>
  /\ SharedUnchanged

\* One pass of the loop over the next round's matches: the match as it was
\* found is resolved against the handler's own result state, and written
\* whole when anything in it changed.
ResolveNext(h) ==
  /\ inflight[h].pc = "resolve"
  /\ inflight[h].cursor <= Len(inflight[h].nextRoundMatches)
  /\ \E found \in {inflight[h].nextRoundMatches[inflight[h].cursor]} :
       \E matchUpdate \in {ResolveMatch(found.doc, inflight[h].result.state.seedPositions,
                                        inflight[h].availableParticipantIds)} :
         matches' = IF matchUpdate # found.doc
                    THEN [matches EXCEPT ![found.index] = matchUpdate]
                    ELSE matches
  /\ inflight' = [inflight EXCEPT ![h].cursor = @ + 1]
  /\ UNCHANGED state_blob
  /\ SharedUnchanged

\* The loop is over; there are no new matches and no standings to store; the
\* response is sent.
Respond(h) ==
  /\ inflight[h].pc = "resolve"
  /\ inflight[h].cursor > Len(inflight[h].nextRoundMatches)
  /\ inflight' = [inflight EXCEPT ![h].pc = "done"]
  /\ UNCHANGED <<state_blob, matches>>
  /\ SharedUnchanged

NextOverlap ==
  \/ \E m \in 1..Len(matches), aWins \in BOOLEAN : ReceiveResult(m, aWins)
  \/ \E h \in 1..Len(inflight) : FindTournament(h)
  \/ \E h \in 1..Len(inflight) : FindMatchAndProcess(h)
  \/ \E h \in 1..Len(inflight) : SaveTournament(h)
  \/ \E h \in 1..Len(inflight) : UpdateMatches(h)
  \/ \E h \in 1..Len(inflight) : FindNextRound(h)
  \/ \E h \in 1..Len(inflight) : FindCompleted(h)
  \/ \E h \in 1..Len(inflight) : ResolveNext(h)
  \/ \E h \in 1..Len(inflight) : Respond(h)

SpecOverlap == Init /\ [][NextOverlap]_vars

StatusRank(status) ==
  IF status = "pending" THEN 0
  ELSE IF status = "ready" THEN 1
  ELSE IF status = "live" THEN 2
  ELSE 3

\* C13: the status of a persisted tournament match never moves backward in the
\* order pending < ready < live < {completed, walkover, cancelled}, whatever
\* the result submissions and however their handlers overlap.
C13_StatusNeverRegresses ==
  [][\A m \in 1..Len(matches) :
       StatusRank(matches'[m].status) >= StatusRank(matches[m].status)]_vars

\* The persisted state and matches after the handler has run alone, from its
\* first read to its last write, for each of the two submissions in turn.
SerialOutcome(first, second) ==
  LET generated == MonradGenerateInitialState(entrants)
      one == HandleResult(generated.state, CreateMatchDocs(generated.matches),
                          inflight[first].match, inflight[first].matchResult)
  IN HandleResult(one.state, one.matches,
                  inflight[second].match, inflight[second].matchResult)

\* Two results, for different matches, have been submitted and handled.
TwoHandled ==
  /\ Len(inflight) = 2
  /\ inflight[1].pc = "done"
  /\ inflight[2].pc = "done"
  /\ inflight[1].match # inflight[2].match

AsIfSerial ==
  \E order \in {<<1, 2>>, <<2, 1>>} :
    \E outcome \in {SerialOutcome(order[1], order[2])} :
      /\ state_blob = outcome.state
      /\ matches = outcome.matches

\* C14: when two results for different matches of a Monrad tournament have been
\* handled, with or without overlap of their handlers, the persisted tournament
\* state and the next-round slots are those of handling the two one after the
\* other, in one of the two orders.
C14_OverlapEqualsSerialOrder == TwoHandled => AsIfSerial

---------------------------------------------------------------------------
(* Round robin and pools: properties of the generated groups and fixtures  *)

GroupsGenerated == state_blob.format \in {"round_robin", "pools_knockout"}

\* The target group size generation used: groups.target_size, or else the
\* number of participants (round robin) or 4 (pools).
ConfiguredTargetSize ==
  IF config.format = "round_robin" THEN TargetSizeOr(config, Len(entrants))
  ELSE TargetSizeOr(config, PoolsDefaultGroupSize)

\* The 1-based indexes of the groups that hold the participant with this id.
GroupsHolding(id) ==
  {g \in 1..Len(groups) :
     \E k \in 1..Len(groups[g].participants) : groups[g].participants[k].id = id}

\* a has to come before b: by seed ascending, a seeded participant before an
\* unseeded one, two unseeded ones by name.
RankedBefore(a, b) ==
  \/ a.seed # 0 /\ b.seed # 0 /\ a.seed < b.seed
  \/ a.seed # 0 /\ b.seed = 0
  \/ a.seed = 0 /\ b.seed = 0 /\ NameBefore(a.name, b.name)

\* C15: with the participants sorted by seed ascending (unseeded last, then by
\* name) and groupCount = ceil(N / target size), the participant at sorted
\* index i is in group i mod groupCount when floor(i / groupCount) is even and
\* in group groupCount-1-(i mod groupCount) otherwise; every participant is in
\* exactly one group, and the group sizes differ by at most one.
C15_SnakePartition ==
  GroupsGenerated =>
    \E sorted \in {GroupSortParticipants(entrants)} :
      \E N \in {Len(entrants)} :
        \E groupCount \in {(N + ConfiguredTargetSize - 1) \div ConfiguredTargetSize} :
          /\ Len(sorted) = N
          /\ {sorted[k] : k \in 1..N} = {entrants[k] : k \in 1..N}
          /\ \A i \in 1..N, j \in 1..N : i < j => ~RankedBefore(sorted[j], sorted[i])
          /\ Len(groups) = groupCount
          /\ \A i \in 0..(N - 1) :
               GroupsHolding(sorted[i + 1].id) =
                 {1 + (IF (i \div groupCount) % 2 = 0 THEN i % groupCount
                       ELSE groupCount - 1 - (i % groupCount))}
          /\ \A g \in 1..Len(groups) :
               /\ Cardinality({groups[g].participants[k].id :
                                 k \in 1..Len(groups[g].participants)})
                    = Len(groups[g].participants)
               /\ \A k \in 1..Len(groups[g].participants) :
                    \E e \in 1..N : entrants[e] = groups[g].participants[k]
          /\ \A g \in 1..Len(groups), h \in 1..Len(groups) :
               Len(groups[g].participants) - Len(groups[h].participants) <= 1

\* C15 witness: generation made three or more groups with a remainder: the
\* snake has turned at least once and the groups are not all of one size.
C15_Witness ==
  /\ GroupsGenerated
  /\ Len(groups) >= 3
  /\ Len(entrants) > 2 * Len(groups)
  /\ \E g \in 1..Len(groups), h \in 1..Len(groups) :
       Len(groups[g].participants) # Len(groups[h].participants)
  /\ \E k \in 1..Len(entrants) : entrants[k].seed = 0
  /\ \E k \in 1..Len(entrants) : entrants[k].seed # 0

\* The ids of the members of group g.
MemberIds(g) == {groups[g].participants[k].id : k \in 1..Len(groups[g].participants)}

\* The indexes of the fixtures of group g.
FixturesOf(g) == {m \in 1..Len(matches) : matches[m].group_id = groups[g]._id}

\* The two participant ids of a fixture.
FixtureIds(match) == {match.participant_a.participant_id, match.participant_b.participant_id}

\* C16: generation makes, for every group with n members, exactly n(n-1)/2
\* fixtures; every unordered pair of members of a group is in exactly one
\* fixture; no fixture pairs members of different groups; and every fixture
\* starts with status ready.
C16_AllPairsOnce ==
  (GroupsGenerated /\ lastCall = NoCall) =>
    /\ \A g \in 1..Len(groups) :
         \E ids \in {MemberIds(g)} :
           \E fixtures \in {FixturesOf(g)} :
             /\ 2 * Cardinality(fixtures) = Cardinality(ids) * (Cardinality(ids) - 1)
             /\ \A a \in ids, b \in ids :
                  a < b => Cardinality({m \in fixtures : FixtureIds(matches[m]) = {a, b}}) = 1
    /\ \A m \in 1..Len(matches) :
         /\ matches[m].status = "ready"
         /\ matches[m].participant_a.participant_id # matches[m].participant_b.participant_id
         /\ \E g \in 1..Len(groups) :
              /\ matches[m].group_id = groups[g]._id
              /\ FixtureIds(matches[m]) \subseteq MemberIds(g)

\* C16 witness: generation made several groups, one of them with four or more
\* members.
C16_Witness ==
  /\ GroupsGenerated
  /\ lastCall = NoCall
  /\ Len(groups) >= 2
  /\ \E g \in 1..Len(groups) : Len(groups[g].participants) >= 4
  /\ Len(matches) >= 12

---------------------------------------------------------------------------
(* Round robin: properties of onMatchResult                                *)

\* onMatchResult of round robin has just returned.
RRResultApplied == state_blob.format = "round_robin" /\ lastCall # NoCall

\* The 1-based index of the group the last reported match belongs to.
ReportedGroup ==
  CHOOSE g \in 1..Len(groups) : groups[g]._id = matches[lastCall.match].group_id

\* The results reported so far that this participant won, or lost.
WinsOf(id) ==
  Cardinality({m \in 1..Len(matches) :
                 matches[m].status = "completed"
                 /\ matches[m].result.winner_participant_id = id})

LossesOf(id) ==
  Cardinality({m \in 1..Len(matches) :
                 matches[m].status = "completed"
                 /\ matches[m].result.loser_participant_id = id})

\* C17: after onMatchResult for a match of group g, standingsUpdates has an
\* entry for g whose standings table has exactly one row per member of g, with
\* the wins and losses that count the result just reported, and, for a chain
\* that starts with wins, no row above a row with more wins.
C17_StandingsRowPerMember ==
  RRResultApplied =>
    \E u \in 1..Len(lastReturn.standingsUpdates) :
      \E table \in {lastReturn.standingsUpdates[u].standings} :
        /\ lastReturn.standingsUpdates[u].group_id = groups[ReportedGroup]._id
        /\ Len(table) = Cardinality(MemberIds(ReportedGroup))
        /\ {table[r].participant_id : r \in 1..Len(table)} = MemberIds(ReportedGroup)
        /\ \A r \in 1..Len(table) :
             /\ table[r].wins = WinsOf(table[r].participant_id)
             /\ table[r].losses = LossesOf(table[r].participant_id)
        /\ (Len(state_blob.tiebreakers) > 0 /\ state_blob.tiebreakers[1] = "wins") =>
             \A r \in 1..Len(table), s \in 1..Len(table) :
               r < s => table[r].wins >= table[s].wins

\* Every fixture of every group is completed.
AllFixturesCompleted == \A m \in 1..Len(matches) : matches[m].status = "completed"

\* C18: onMatchResult returns tournamentComplete = true, and a state with
\* completed = true, on the submission that completes the last outstanding
\* fixture of all groups, and false on every earlier submission.
C18_CompleteOnLastFixture ==
  RRResultApplied =>
    /\ lastReturn.tournamentComplete = AllFixturesCompleted
    /\ state_blob.completed = AllFixturesCompleted

---------------------------------------------------------------------------
(* RoundRobinFormat: the tiebreaker chain                                  *)

\* Math.random() - 0.5 is negative, zero or positive; -1, 0 and 1 stand for the
\* three cases (the sort reads only the sign of what the comparator returns).
RandomSigns == {-1, 0, 1}

CompareHeadToHead(a, b) ==
  IF b.participant_id \in DOMAIN a.head_to_head
  THEN LET h2h == a.head_to_head[b.participant_id]
       IN IF h2h.wins > h2h.losses THEN -1
          ELSE IF h2h.wins < h2h.losses THEN 1
          ELSE 0
  ELSE 0

\* `draw` is the outcome of Math.random() - 0.5, should this entry ask for it.
CompareTiebreaker(a, b, tiebreaker, draw) ==
  IF tiebreaker = "wins" THEN b.wins - a.wins
  ELSE IF tiebreaker = "h2h" THEN CompareHeadToHead(a, b)
  ELSE IF tiebreaker = "game_diff"
    THEN b.games_won - b.games_lost - (a.games_won - a.games_lost)
  ELSE IF tiebreaker = "point_diff"
    THEN b.points_won - b.points_lost - (a.points_won - a.points_lost)
  ELSE IF tiebreaker = "fewest_walkovers"
    THEN a.walkovers_received - b.walkovers_received
  ELSE IF tiebreaker = "random" THEN draw
  ELSE 0

\* The draw the entry at position k of the chain gets.
DrawAt(draws, k) == IF k \in DOMAIN draws THEN draws[k] ELSE 0

\* The loop of the comparator from entry k of the chain on.
RECURSIVE CompareFrom(_, _, _, _, _)
CompareFrom(a, b, tiebreakers, k, draws) ==
  IF k > Len(tiebreakers) THEN 0
  ELSE IF CompareTiebreaker(a, b, tiebreakers[k], DrawAt(draws, k)) # 0
       THEN CompareTiebreaker(a, b, tiebreakers[k], DrawAt(draws, k))
       ELSE CompareFrom(a, b, tiebreakers, k + 1, draws)

\* Mutant of SortComparator: the last entry of the chain that discriminates
\* decides.
SortComparatorLastEntry(a, b, tiebreakers, draws) ==
  LET deciding == {k \in 1..Len(tiebreakers) :
                     CompareTiebreaker(a, b, tiebreakers[k], DrawAt(draws, k)) # 0}
  IN IF deciding = {} THEN 0
     ELSE CompareTiebreaker(a, b,
                            tiebreakers[CHOOSE k \in deciding : \A l \in deciding : l <= k],
                            DrawAt(draws, CHOOSE k \in deciding : \A l \in deciding : l <= k))

\* The comparator _applyTiebreakers hands to Array.prototype.sort.  `draws`
\* gives, for every position of the chain that holds "random", the outcome of
\* its Math.random() - 0.5 in this call.
SortComparator(a, b, tiebreakers, draws) == CompareFrom(a, b, tiebreakers, 1, draws)

MaxStat == 2
MaxComparisons == 3

\* The pairs of a table of three rows, and what is known of their direct
\* matches: none played, the first of the pair won, or the second did.
RowPairs == {<<1, 2>>, <<1, 3>>, <<2, 3>>}
DirectOutcomes == {"none", "first", "second"}

\* The head_to_head record of a row, given the direct matches.
HeadToHeadOf(id, direct) ==
  LET met == {o \in 1..3 : o # id
                /\ direct[IF id < o THEN <<id, o>> ELSE <<o, id>>] # "none"}
      Won(o) == IF id < o THEN direct[<<id, o>>] = "first" ELSE direct[<<o, id>>] = "second"
  IN [o \in met |-> IF Won(o) THEN [wins |-> 1, losses |-> 0]
                    ELSE [wins |-> 0, losses |-> 1]]

StandingsRow(id, wins, gamesWon, pointsWon, walkovers, direct) ==
  [participant_id |-> id,
   name |-> PlayerName(id),
   wins |-> wins,
   games_won |-> gamesWon,
   games_lost |-> 1,
   points_won |-> pointsWon,
   points_lost |-> 1,
   walkovers_received |-> walkovers,
   head_to_head |-> HeadToHeadOf(id, direct)]

\* The tiebreaker chains tried: the default one, the default without random,
\* one in another order, and one with unrecognised entries.
TiebreakerChains ==
  {DefaultTiebreakers,
   SubSeq(DefaultTiebreakers, 1, 5),
   <<"game_diff", "wins", "fewest_walkovers">>,
   <<"alphabetical", "point_diff", "coin", "wins">>}

\* The tables tried: two rows of a group, the second with any statistics, or
\* three rows level on wins with any direct matches between them.
StandingsTables ==
  {<<StandingsRow(1, 1, 1, 1, 1, direct),
     StandingsRow(2, stats[1], stats[2], stats[3], stats[4], direct)>> :
     stats \in [1..4 -> 0..MaxStat],
     direct \in {[p \in RowPairs |-> IF p = <<1, 2>> THEN o ELSE "none"] :
                   o \in DirectOutcomes}}
  \cup
  {<<StandingsRow(1, 1, games[1], 1, 1, direct),
     StandingsRow(2, 1, games[2], 1, 1, direct),
     StandingsRow(3, 1, games[3], 1, 1, direct)>> :
     games \in [1..3 -> {0, MaxStat}],
     direct \in [RowPairs -> DirectOutcomes]}

\* A standings table and a chain, about to be sorted by _applyTiebreakers.
InitTiebreak ==
  \E chain \in TiebreakerChains, table \in StandingsTables :
    /\ entrants = <<>>
    /\ state_blob = NoState
    /\ matches = <<>>
    /\ bracket = <<>>
    /\ callArg = NoState
    /\ callArgBefore = NoState
    /\ lastReturn = NoReturn
    /\ lastCall = NoCall
    /\ config = [format |-> "round_robin", tiebreakers |-> chain]
    /\ groups = <<>>
    /\ inflight = <<>>
    /\ standings = [table |-> table, comparisons |-> {}]
    /\ formats = RegisteredFormats

\* The sort calls the comparator on rows i and j of the table.
CompareRows(i, j) ==
  /\ i \in 1..Len(standings.table)
  /\ j \in 1..Len(standings.table)
  /\ i # j
  /\ Cardinality(standings.comparisons) < MaxComparisons
  /\ \E draws \in [{k \in 1..Len(config.tiebreakers) : config.tiebreakers[k] = "random"}
                    -> RandomSigns] :
       standings' = [standings EXCEPT !.comparisons = @ \cup
                       {[a |-> i, b |-> j, draws |-> draws,
                         result |-> SortComparator(standings.table[i], standings.table[j],
                                                   config.tiebreakers, draws)]}]
  /\ UNCHANGED <<entrants, state_blob, matches, bracket, callArg, callArgBefore,
                 lastReturn, lastCall, config, groups, inflight, formats>>

NextTiebreak == \E i \in 1..3, j \in 1..3 : CompareRows(i, j)

SpecTiebreak == InitTiebreak /\ [][NextTiebreak]_vars

Sign(x) == IF x < 0 THEN -1 ELSE IF x > 0 THEN 1 ELSE 0

\* The chain the comparator calls were made with, and the rows of a call.
ChainUsed == config.tiebreakers
RowA(c) == standings.table[c.a]
RowB(c) == standings.table[c.b]

\* Two recorded calls say the same about the order of the two rows they share.
Antisymmetric(c, d) ==
  /\ (c.a = d.b /\ c.b = d.a) => Sign(c.result) = -Sign(d.result)
  /\ (c.a = d.a /\ c.b = d.b) => Sign(c.result) = Sign(d.result)

\* c puts x before y, d puts y before z: e, on x and z, puts x before z.
Transitive(c, d, e) ==
  (c.b = d.a /\ e.a = c.a /\ e.b = d.b /\ c.result < 0 /\ d.result < 0) => e.result < 0

\* C19: the comparison the chain {wins, h2h, game_diff, point_diff,
\* fewest_walkovers, random} defines is a consistent total order on the rows of
\* a table: antisymmetric, transitive for every triple of rows, and, with random
\* as the last entry, never a tie between two distinct rows.
C19_ConsistentTotalOrder ==
  ChainUsed = DefaultTiebreakers =>
    \A c \in standings.comparisons, d \in standings.comparisons :
      /\ Antisymmetric(c, d)
      /\ \A e \in standings.comparisons : Transitive(c, d, e)
      /\ c.result # 0

\* The two rows differ on a chain entry: in wins, in a decided direct record,
\* in game or point differential, in walkovers received, or by the draw.
RowsDifferOn(a, b, tiebreaker, draw) ==
  IF tiebreaker = "wins" THEN a.wins # b.wins
  ELSE IF tiebreaker = "h2h"
    THEN /\ b.participant_id \in DOMAIN a.head_to_head
         /\ a.head_to_head[b.participant_id].wins # a.head_to_head[b.participant_id].losses
  ELSE IF tiebreaker = "game_diff"
    THEN a.games_won - a.games_lost # b.games_won - b.games_lost
  ELSE IF tiebreaker = "point_diff"
    THEN a.points_won - a.points_lost # b.points_won - b.points_lost
  ELSE IF tiebreaker = "fewest_walkovers"
    THEN a.walkovers_received # b.walkovers_received
  ELSE IF tiebreaker = "random" THEN draw # 0
  ELSE FALSE

\* Row a is the better of the two on a chain entry.
BetterOn(a, b, tiebreaker, draw) ==
  IF tiebreaker = "wins" THEN a.wins > b.wins
  ELSE IF tiebreaker = "h2h"
    THEN /\ b.participant_id \in DOMAIN a.head_to_head
         /\ a.head_to_head[b.participant_id].wins > a.head_to_head[b.participant_id].losses
  ELSE IF tiebreaker = "game_diff"
    THEN a.games_won - a.games_lost > b.games_won - b.games_lost
  ELSE IF tiebreaker = "point_diff"
    THEN a.points_won - a.points_lost > b.points_won - b.points_lost
  ELSE IF tiebreaker = "fewest_walkovers"
    THEN a.walkovers_received < b.walkovers_received
  ELSE IF tiebreaker = "random" THEN draw < 0
  ELSE FALSE

\* The positions of the chain on which the rows of a recorded call differ.
DifferingEntries(c) ==
  {k \in 1..Len(ChainUsed) : RowsDifferOn(RowA(c), RowB(c), ChainUsed[k], DrawAt(c.draws, k))}

\* C20: for any two rows the ordering is decided by the first entry of the
\* configured chain on which the two rows differ: later entries count only
\* when all earlier ones tie, an unrecognised entry never discriminates, and
\* rows that differ on no entry compare as equal.
C20_FirstDifferingEntryDecides ==
  \A c \in standings.comparisons :
    \E differing \in {DifferingEntries(c)} :
      IF differing = {} THEN c.result = 0
      ELSE \E first \in {CHOOSE k \in differing : \A l \in differing : k <= l} :
             /\ c.result # 0
             /\ (c.result < 0) = BetterOn(RowA(c), RowB(c), ChainUsed[first],
                                          DrawAt(c.draws, first))

\* C20 witness: a call with a chain whose first entry is unrecognised, on two
\* rows that differ on two later entries of the chain which disagree about the
\* better row.
C20_Witness ==
  \E c \in standings.comparisons :
    /\ ChainUsed[1] \notin {DefaultTiebreakers[k] : k \in 1..Len(DefaultTiebreakers)}
    /\ c.result # 0
    /\ \E k \in DifferingEntries(c), l \in DifferingEntries(c) :
         BetterOn(RowA(c), RowB(c), ChainUsed[k], DrawAt(c.draws, k))
           # BetterOn(RowA(c), RowB(c), ChainUsed[l], DrawAt(c.draws, l))

---------------------------------------------------------------------------
(* Monrad: generation for every participant count                          *)

MonradMinParticipants == 4
MonradMaxParticipants == 32

\* validateConfig of a participant list: no error is pushed.
MonradValidateConfig(participants) ==
  /\ ~(Len(participants) < MonradMinParticipants)
  /\ ~(Len(participants) > MonradMaxParticipants)

\* A Monrad tournament of n participants that is about to be generated.
MonradDraft(n, seededCount) ==
  /\ entrants = GroupParticipants(n, seededCount)
  /\ state_blob = NoState
  /\ matches = <<>>
  /\ bracket = <<>>
  /\ callArg = NoState
  /\ callArgBefore = NoState
  /\ lastReturn = NoReturn
  /\ lastCall = NoCall
  /\ config = [format |-> "monrad"]
  /\ groups = <<>>
  /\ inflight = <<>>
  /\ standings = NoStandings
  /\ formats = RegisteredFormats

\* TRUE where generateInitialState leaves through the throw of _getMonradPairs.
MonradGenerationRaises(participants) ==
  LET adjustedParticipants == AdjustParticipantsForMonrad(MonradSortParticipants(participants))
  IN \E round \in 1..MonradCalculateRounds(Len(adjustedParticipants)) :
       ~HasMonradPairs(Len(adjustedParticipants), round)

\* generateTournament for Monrad: validation, then generateInitialState, whose
\* _sortParticipants sorts the list it was handed.
MonradGenerateTournament ==
  /\ config.format = "monrad"
  /\ state_blob = NoState
  /\ MonradValidateConfig(entrants)
  /\ ~MonradGenerationRaises(entrants)
  /\ \E generated \in {MonradGenerateInitialState(entrants)} :
       /\ state_blob' = generated.state
       /\ matches' = generated.matches
       /\ callArg' = generated.state
       /\ callArgBefore' = generated.state
  /\ entrants' = MonradSortParticipants(entrants)
  /\ UNCHANGED <<bracket, lastReturn, lastCall, config, groups, inflight, standings, formats>>

InitMonradGen ==
  \E n \in (MonradMinParticipants - 1)..(MonradMaxParticipants + 1) :
    \E seededCount \in {0, n \div 2, n} : MonradDraft(n, seededCount)

NextMonradGen == MonradGenerateTournament

SpecMonradGen == InitMonradGen /\ [][NextMonradGen]_vars

MonradGenerated == config.format = "monrad" /\ state_blob # NoState

\* The matches generated for a round.
MonradRoundMatches(round) == {i \in 1..Len(matches) : matches[i].round = round}

EntrantIds == {entrants[k].id : k \in 1..Len(entrants)}

\* C21: a generated Monrad tournament of N participants has the field of the
\* smallest supported size S >= N, the N participants in seed order at the
\* seed positions 1..N and S - N byes behind them, log2(S) rounds of S/2
\* matches each, concrete slots in round 1 and two seed-position slots and
\* status pending in every later round.
C21_MonradNormalizedField ==
  MonradGenerated =>
    \E N \in {Len(entrants)}, S \in {state_blob.effectiveParticipantCount} :
      /\ state_blob.participantCount = N
      /\ S \in {8, 16, 32} /\ S >= N
      /\ \A T \in {8, 16, 32} : T >= N => S <= T
      /\ DOMAIN state_blob.seedPositions = 1..S
      /\ {state_blob.seedPositions[k].participant_id : k \in 1..N} = EntrantIds
      /\ \A k \in 1..N, l \in 1..N :
           k < l => MonradSortKey([seed |-> SeedOfId(state_blob.seedPositions[k].participant_id)])
                    <= MonradSortKey([seed |-> SeedOfId(state_blob.seedPositions[l].participant_id)])
      /\ \A k \in (N + 1)..S :
           /\ state_blob.seedPositions[k].name = MonradByeName(k - N)
           /\ state_blob.seedPositions[k].participant_id \notin EntrantIds
           /\ \E i \in MonradRoundMatches(1) :
                \E slot \in {matches[i].participant_a, matches[i].participant_b} :
                  /\ slot.type = "bye"
                  /\ slot.participant_id = state_blob.seedPositions[k].participant_id
      /\ 2^(state_blob.totalRounds) = S
      /\ \A i \in 1..Len(matches) : matches[i].round \in 1..state_blob.totalRounds
      /\ \A round \in 1..state_blob.totalRounds :
           Cardinality(MonradRoundMatches(round)) = S \div 2
      /\ \A i \in 1..Len(matches) :
           \A slot \in {matches[i].participant_a, matches[i].participant_b} :
             IF matches[i].round = 1
             THEN /\ slot.type \in {"participant", "bye"}
                  /\ slot.participant_id # NULL
                  /\ slot.type = "participant" <=> slot.participant_id \in EntrantIds
             ELSE /\ slot.type = "seed_position"
                  /\ slot.seed \in 1..S
                  /\ matches[i].status = "pending"

\* Eleven participants, some unseeded, are generated into a field of 16.
C21_Witness ==
  /\ MonradGenerated
  /\ Len(entrants) = 11
  /\ state_blob.effectiveParticipantCount = 16
  /\ state_blob.totalRounds = 4
  /\ \E k \in 1..Len(entrants) : entrants[k].seed = 0

---------------------------------------------------------------------------
(* Monrad: the pairing lookup                                              *)

MaxLookupSize == 33
MaxLookupRound == 6

NoPairs == [raised |-> FALSE, pairs |-> <<>>, looked |-> FALSE]

\* A call of _getMonradPairs(participantCount, round) that is about to be made.
PairsDraft(participantCount, round) ==
  /\ entrants = <<>>
  /\ state_blob = NoState
  /\ matches = <<>>
  /\ bracket = <<>>
  /\ callArg = [participantCount |-> participantCount, round |-> round]
  /\ callArgBefore = callArg
  /\ lastReturn = NoPairs
  /\ lastCall = NoCall
  /\ config = [format |-> "monrad"]
  /\ groups = <<>>
  /\ inflight = <<>>
  /\ standings = NoStandings
  /\ formats = RegisteredFormats

\* _getMonradPairs: the table entry, or the throw where there is none.
LookupMonradPairs ==
  /\ "participantCount" \in DOMAIN callArg
  /\ lastReturn = NoPairs
  /\ lastReturn' =
       IF HasMonradPairs(callArg.participantCount, callArg.round)
       THEN [raised |-> FALSE,
             pairs |-> GetMonradPairs(callArg.participantCount, callArg.round),
             looked |-> TRUE]
       ELSE [raised |-> TRUE, pairs |-> <<>>, looked |-> TRUE]
  /\ UNCHANGED <<entrants, state_blob, matches, bracket, callArg, callArgBefore, lastCall,
                 config, groups, inflight, standings, formats>>

InitPairs ==
  \E participantCount \in 0..MaxLookupSize, round \in 0..MaxLookupRound :
    PairsDraft(participantCount, round)

NextPairs == LookupMonradPairs

SpecPairs == InitPairs /\ [][NextPairs]_vars

\* The seed positions a list of pairs mentions, each as often as it occurs.
PairedSeeds(pairs) == {<<index, side>> : index \in 1..Len(pairs), side \in 1..2}

PerfectMatching(pairs, size) ==
  /\ 2 * Len(pairs) = size
  /\ \A seed \in 1..size :
       Cardinality({slot \in PairedSeeds(pairs) : pairs[slot[1]][slot[2]] = seed}) = 1

\* C22: for each size 8, 16, 32 and each round 1..log2(size) the looked-up
\* pairs hold every seed position 1..size exactly once, and for size 8 they
\* are (1,8)(2,7)(3,6)(4,5), then (1,4)(2,3)(5,8)(6,7), then (1,2)(3,4)(5,6)(7,8).
C22_PairsArePerfectMatching ==
  (/\ lastReturn.looked
   /\ callArg.participantCount \in {8, 16, 32}
   /\ callArg.round >= 1
   /\ 2^(callArg.round) <= callArg.participantCount) =>
    /\ ~lastReturn.raised
    /\ PerfectMatching(lastReturn.pairs, callArg.participantCount)
    /\ (callArg.participantCount = 8 /\ callArg.round = 1) =>
         lastReturn.pairs = <<<<1, 8>>, <<2, 7>>, <<3, 6>>, <<4, 5>>>>
    /\ (callArg.participantCount = 8 /\ callArg.round = 2) =>
         lastReturn.pairs = <<<<1, 4>>, <<2, 3>>, <<5, 8>>, <<6, 7>>>>
    /\ (callArg.participantCount = 8 /\ callArg.round = 3) =>
         lastReturn.pairs = <<<<1, 2>>, <<3, 4>>, <<5, 6>>, <<7, 8>>>>

\* The last round of the field of 32 has been looked up.
C22_Witness ==
  /\ lastReturn.looked
  /\ ~lastReturn.raised
  /\ callArg.participantCount = 32
  /\ callArg.round = 5
  /\ Len(lastReturn.pairs) = 16

HasBye(match) == \E slot \in SlotsOf(match) : slot.type = "bye"

\* C23: in a generated Monrad tournament no round-1 match has a bye in both
\* slots, and every round-1 match with a bye is completed with a result that
\* names the participant of the match as the winner, has no loser id and is a
\* walkover.
C23_ByeMatchesAreWalkovers ==
  MonradGenerated =>
    \A i \in MonradRoundMatches(1) :
      /\ ~(matches[i].participant_a.type = "bye" /\ matches[i].participant_b.type = "bye")
      /\ HasBye(matches[i]) =>
           /\ matches[i].status = "completed"
           /\ \E slot \in SlotsOf(matches[i]) :
                /\ slot.type = "participant"
                /\ slot.participant_id \in EntrantIds
                /\ matches[i].result.winner_participant_id = slot.participant_id
                /\ matches[i].result.winner_name = slot.name
           /\ matches[i].result.loser_participant_id = NULL
           /\ matches[i].result.walkover

\* Nine participants in a field of 16: seven round-1 matches have a bye, the
\* eighth is played.
C23_Witness ==
  /\ MonradGenerated
  /\ Len(entrants) = 9
  /\ Cardinality({i \in MonradRoundMatches(1) : HasBye(matches[i])}) = 7
  /\ \E i \in MonradRoundMatches(1) : matches[i].status = "ready"

---------------------------------------------------------------------------
(* Monrad: completion and final results                                    *)

MonradSeedFallback == 999

\* _getCurrentSeed: the first seed position that holds the participant.
MonradGetCurrentSeed(state, participantId) ==
  LET held == {seed \in DOMAIN state.seedPositions :
                 state.seedPositions[seed].participant_id = participantId}
  IN IF held = {} THEN MonradSeedFallback
     ELSE CHOOSE seed \in held : \A other \in held : seed <= other

\* _calculateCurrentStandings: the history entries sorted by current seed.  The
\* entries are taken in the order they were inserted, which for the participant
\* lists of Init is the order of the ids.
MonradCalculateCurrentStandings(state) ==
  LET ordered == SortByKey(Ascending(DOMAIN state.participantHistory),
                           LAMBDA id : MonradGetCurrentSeed(state, id))
  IN [index \in 1..Len(ordered) |->
       [position |-> index,
        participant_id |-> ordered[index],
        name |-> state.participantHistory[ordered[index]].name,
        wins |-> state.participantHistory[ordered[index]].wins,
        losses |-> state.participantHistory[ordered[index]].losses,
        current_seed |-> MonradGetCurrentSeed(state, ordered[index])]]

\* getFinalResults: null unless state.completed.
MonradGetFinalResults(state) ==
  IF ~state.completed THEN NULL ELSE MonradCalculateCurrentStandings(state)

FinalRoundMatches == {i \in 1..Len(matches) : matches[i].round = state_blob.totalRounds}

---------------------------------------------------------------------------
(* Monrad: where the pairing lookup throws                                 *)

PairingError == [raised |-> TRUE, error |-> "Monrad pairing structure not defined"]

\* onMatchResult is called on a generated tournament with a match of the given
\* round and number.  Where _updateSeedPositions throws, the call returns
\* nothing and the stored state stays.
MonradResultCall(round, number, aWins) ==
  /\ MonradGenerated
  /\ lastCall = NoCall
  /\ LET match == [round |-> round,
                   match_number |-> MatchNumberString(round, number),
                   participant_a |-> ParticipantRef(entrants[1].id, entrants[1].name),
                   participant_b |-> ParticipantRef(entrants[2].id, entrants[2].name),
                   status |-> "ready",
                   result |-> NoResult]
     IN \E matchResult \in {ResultFor(match, aWins)} :
          /\ lastCall' = [match |-> number, round |-> round, result |-> matchResult]
          /\ callArgBefore' = state_blob
          /\ IF UpdateSeedPositionsDefined(state_blob, match)
             THEN \E result \in {MonradOnMatchResult(state_blob, match, matchResult)} :
                    /\ state_blob' = result.state
                    /\ callArg' = result.input
                    /\ lastReturn' = [updatedMatches |-> result.updatedMatches,
                                      tournamentComplete |-> result.tournamentComplete]
             ELSE /\ lastReturn' = PairingError
                  /\ UNCHANGED <<state_blob, callArg>>
  /\ UNCHANGED <<entrants, matches, bracket, config, groups, inflight, standings, formats>>

InitMonradRaise == InitPairs \/ InitMonradGen

NextMonradRaise ==
  \/ LookupMonradPairs
  \/ MonradGenerateTournament
  \/ \E round \in 1..MaxLookupRound, number \in 1..2, aWins \in BOOLEAN :
       MonradResultCall(round, number, aWins)

SpecMonradRaise == InitMonradRaise /\ [][NextMonradRaise]_vars

Raised == "raised" \in DOMAIN lastReturn /\ lastReturn.raised

LookedUp == "looked" \in DOMAIN lastReturn /\ lastReturn.looked

\* C25: the pairing lookup throws for every size other than 8, 16, 32 and for
\* every round outside 1..log2(size); generation of 4..32 participants does not
\* reach the throw; onMatchResult with a match of a round above totalRounds
\* throws and leaves the state as it was.
C25_UnsupportedSizeRaises ==
  /\ LookedUp =>
       ((\/ callArg.participantCount \notin {8, 16, 32}
         \/ callArg.round < 1
         \/ 2^(callArg.round) > callArg.participantCount) => lastReturn.raised)
  /\ (/\ config.format = "monrad"
      /\ state_blob = NoState
      /\ Len(entrants) \in 4..32) => ~MonradGenerationRaises(entrants)
  /\ (/\ MonradGenerated
      /\ lastCall # NoCall
      /\ lastCall.round > state_blob.totalRounds) =>
       /\ Raised
       /\ lastReturn = PairingError
       /\ state_blob = callArgBefore

\* A result for a round-4 match reaches a tournament of three rounds.
C25_Witness ==
  /\ MonradGenerated
  /\ state_blob.totalRounds = 3
  /\ lastCall # NoCall
  /\ lastCall.round = 4
  /\ Raised

---------------------------------------------------------------------------
(* TournamentEngine: registry lookup and validateTournament                *)

\* The participant list that is absent: null.  0 is no index of a list.
NoParticipantList == (0 :> NULL)

IsAbsent(participants) == 0 \in DOMAIN participants

\* Reading participants.length of null.
TypeErrorRaised == [raised |-> TRUE, error |-> "TypeError"]

\* { valid: errors.length === 0, errors }
ValidationResult(errors) == [raised |-> FALSE, valid |-> Len(errors) = 0, errors |-> errors]

\* errors.push(message) where the rule is broken.
PushIf(broken, message) == IF broken THEN <<message>> ELSE <<>>

\* SingleEliminationFormat.validateConfig: the first rule tests the list for
\* null, the second reads its length without the test.
SEValidateConfigResult(participants) ==
  IF IsAbsent(participants) THEN TypeErrorRaised
  ELSE LET seeds == SelectSeq([i \in 1..Len(participants) |-> participants[i].seed],
                              LAMBDA x : x # 0)
       IN ValidationResult(
            PushIf(Len(participants) < SEMinParticipants, "At least 2 participants required")
            \o PushIf(Len(participants) > SEMaxParticipants,
                      "Maximum 128 participants supported")
            \o PushIf(Len(seeds) # Cardinality({seeds[i] : i \in 1..Len(seeds)}),
                      "Duplicate seeds not allowed"))

\* RoundRobinFormat.validateConfig.
RRValidateConfigResult(cfg, participants) ==
  IF IsAbsent(participants) THEN TypeErrorRaised
  ELSE ValidationResult(
         PushIf(Len(participants) < RRMinParticipants,
                "At least 3 participants required for round robin")
         \o PushIf(Len(participants) > RRMaxParticipants,
                   "Maximum 20 participants recommended for single round robin")
         \o PushIf(TargetSizeOr(cfg, Len(participants)) < RRMinGroupSize,
                   "Group size must be at least 3"))

\* MonradFormat.validateConfig.
MonradValidateConfigResult(participants) ==
  IF IsAbsent(participants) THEN TypeErrorRaised
  ELSE ValidationResult(
         PushIf(Len(participants) < MonradMinParticipants,
                "At least 4 participants required for Monrad")
         \o PushIf(Len(participants) > MonradMaxParticipants,
                   "Maximum 32 participants recommended for Monrad"))

\* PoolsKnockoutFormat.validateConfig: the qualifier rule reads the length of
\* the list without the null test of the first rule.
PoolsValidateConfigResult(cfg, participants) ==
  IF IsAbsent(participants) THEN TypeErrorRaised
  ELSE LET targetGroupSize == TargetSizeOr(cfg, PoolsDefaultGroupSize)
           advancePerGroup == AdvancePerGroup(cfg)
           totalQualifiers == (Len(participants) \div targetGroupSize) * advancePerGroup
       IN ValidationResult(
            PushIf(Len(participants) < PoolsMinParticipants,
                   "At least 8 participants required for pools -> knockout")
            \o PushIf(targetGroupSize < PoolsMinGroupSize, "Pool size must be at least 3")
            \o PushIf(advancePerGroup >= targetGroupSize,
                      "Advance count must be less than pool size")
            \o PushIf(totalQualifiers < PoolsMinQualifiers,
                      "Not enough qualifiers for knockout phase"))

\* format.validateConfig(config, participants) of the registered format.
ValidateConfigOf(formatId, cfg, participants) ==
  CASE formatId = "single_elimination" -> SEValidateConfigResult(participants)
    [] formatId = "round_robin" -> RRValidateConfigResult(cfg, participants)
    [] formatId = "monrad" -> MonradValidateConfigResult(participants)
    [] formatId = "pools_knockout" -> PoolsValidateConfigResult(cfg, participants)

NoFormat == [id |-> "", name |-> ""]

UnknownFormatError == [raised |-> TRUE, error |-> "Unknown tournament format"]

\* Mutant of GetFormat: an id that is not registered resolves to the format
\* registered first.
GetFormatOrFirst(registry, formatId) ==
  IF formatId \in DOMAIN registry THEN [raised |-> FALSE, format |-> registry[formatId]]
  ELSE [raised |-> FALSE, format |-> registry[FormatInstances[1].id]]

\* getFormat: the registered format, or the throw.
GetFormat(registry, formatId) ==
  IF formatId \in DOMAIN registry THEN [raised |-> FALSE, format |-> registry[formatId]]
  ELSE [raised |-> TRUE, format |-> NoFormat]

\* The config the request carries: groups.target_size and
\* groups.advance_per_group are present where they are not 0.
EngineConfig(format, targetSize, advancePerGroup) ==
  IF targetSize = 0 /\ advancePerGroup = 0 THEN [format |-> format]
  ELSE IF advancePerGroup = 0 THEN [format |-> format, target_size |-> targetSize]
  ELSE IF targetSize = 0 THEN [format |-> format, advance_per_group |-> advancePerGroup]
  ELSE [format |-> format, target_size |-> targetSize, advance_per_group |-> advancePerGroup]

\* A call of the engine that is about to be made for a tournament that has no
\* state yet.
EngineDraft(format, targetSize, advancePerGroup, participants) ==
  /\ entrants = participants
  /\ state_blob = NoState
  /\ matches = <<>>
  /\ bracket = <<>>
  /\ callArg = NoState
  /\ callArgBefore = NoState
  /\ lastReturn = NoReturn
  /\ lastCall = NoCall
  /\ config = EngineConfig(format, targetSize, advancePerGroup)
  /\ groups = <<>>
  /\ inflight = <<>>
  /\ standings = NoStandings
  /\ formats = RegisteredFormats

\* validateTournament: getFormat, then the format's validateConfig.
ValidateTournament ==
  /\ lastCall = NoCall
  /\ state_blob = NoState
  /\ \E found \in {GetFormat(formats, config.format)} :
       /\ lastCall' = [op |-> "validateTournament", format |-> found.format]
       /\ lastReturn' = IF found.raised THEN UnknownFormatError
                        ELSE ValidateConfigOf(found.format.id, config, entrants)
  /\ UNCHANGED <<entrants, state_blob, matches, bracket, callArg, callArgBefore, config,
                 groups, inflight, standings, formats>>

\* The operations of the engine that start with getFormat(formatId).
EngineOperations ==
  {"generateTournament", "processMatchResult", "getStandings", "getPlayableMatches",
   "isTournamentComplete", "getFinalResults", "serializeState", "deserializeState"}

\* An operation of the engine is called with an id getFormat does not find:
\* the throw of getFormat, the operation's first statement, leaves it.
EngineRejects(operation) ==
  /\ lastCall = NoCall
  /\ \E found \in {GetFormat(formats, config.format)} :
       /\ found.raised
       /\ lastCall' = [op |-> operation, format |-> found.format]
       /\ lastReturn' = UnknownFormatError
  /\ UNCHANGED <<entrants, state_blob, matches, bracket, callArg, callArgBefore, config,
                 groups, inflight, standings, formats>>

\* The participant counts at and next to the limits of the rules.
ValidationCounts ==
  {0} \cup UNION {{limit - 1, limit, limit + 1} :
                    limit \in {SEMinParticipants, SEMaxParticipants, RRMinParticipants,
                               RRMaxParticipants, MonradMinParticipants,
                               MonradMaxParticipants, PoolsMinParticipants}}

\* Lists without seeds, with the seeds 1..n, and with the seed 1 n times; and
\* no list.
ValidationLists ==
  {NoParticipantList}
  \cup {GroupParticipants(n, 0) : n \in ValidationCounts}
  \cup {GroupParticipants(n, n) : n \in ValidationCounts}
  \cup {[i \in 1..n |-> Participant(i, 1)] : n \in ValidationCounts}

RequestedFormats == DOMAIN RegisteredFormats \cup {"swiss", ""}

MaxConfigured == 5

InitEngine ==
  \E format \in RequestedFormats, participants \in ValidationLists :
    \E targetSize \in 0..MaxConfigured, advancePerGroup \in 0..MaxConfigured :
      EngineDraft(format, targetSize, advancePerGroup, participants)

NextEngine ==
  \/ ValidateTournament
  \/ \E operation \in EngineOperations : EngineRejects(operation)

SpecEngine == InitEngine /\ [][NextEngine]_vars

EngineCalled(operation) == "op" \in DOMAIN lastCall /\ lastCall.op = operation

\* C26: validateTournament of a registered format never raises, whatever the
\* participant list, the absent one included, and its result is valid exactly
\* when its error list is empty.
C26_ValidationReportsAsData ==
  (EngineCalled("validateTournament") /\ config.format \in DOMAIN formats) =>
    /\ ~lastReturn.raised
    /\ lastReturn.valid <=> lastReturn.errors = <<>>

FormatIds == {"single_elimination", "round_robin", "monrad", "pools_knockout"}

\* C27: the registry holds, under each of the four format ids, the format with
\* that id, and no call changes it; an engine operation called with any other
\* id ends in the 'Unknown tournament format' error with no format resolved
\* and nothing of the tournament touched.
C27_UnknownFormatRaises ==
  /\ formats = RegisteredFormats
  /\ \A id \in FormatIds :
       /\ ~GetFormat(formats, id).raised
       /\ GetFormat(formats, id).format.id = id
  /\ (EngineCalled("validateTournament") /\ config.format \in FormatIds) =>
       lastCall.format.id = config.format
  /\ ("op" \in DOMAIN lastCall /\ config.format \notin FormatIds) =>
       /\ lastReturn = UnknownFormatError
       /\ lastCall.format = NoFormat
       /\ state_blob = NoState
       /\ matches = <<>>

\* processMatchResult was called for the format id "swiss".
C27_Witness ==
  /\ EngineCalled("processMatchResult")
  /\ config.format = "swiss"
  /\ lastReturn = UnknownFormatError
  /\ formats = RegisteredFormats

---------------------------------------------------------------------------
(* Generation of every format and the list it is handed                    *)

InitGenerate == InitMonradGen \/ InitSE \/ InitGroups

NextGenerate ==
  \/ SEGenerateTournament
  \/ RRGenerateTournament
  \/ MonradGenerateTournament
  \/ PoolsGenerateTournament

SpecGenerate == InitGenerate /\ [][NextGenerate]_vars

\* C28: a step that generates the initial state leaves the participant list it
\* was handed as it was, element by element.
C28_ParticipantListOnlyRead ==
  [][(state_blob = NoState /\ state_blob' # NoState) => entrants' = entrants]_vars

\* C30: validateTournament of the pools format answers valid exactly when
\* there are at least 8 participants, the target pool size is at least 3,
\* advance_per_group is below the target pool size, and the totalQualifiers of
\* the state generateInitialState makes from the same config and list is at
\* least 4.
C30_PoolsValidIffRules ==
  (/\ EngineCalled("validateTournament")
   /\ config.format = "pools_knockout"
   /\ ~IsAbsent(entrants)) =>
    (lastReturn.valid <=>
       /\ Len(entrants) >= 8
       /\ TargetSizeOr(config, PoolsDefaultGroupSize) >= 3
       /\ AdvancePerGroup(config) < TargetSizeOr(config, PoolsDefaultGroupSize)
       /\ PoolsGenerateInitialState(config, entrants).state.totalQualifiers >= 4)

---------------------------------------------------------------------------
(* serialize and deserialize                                               *)

\* The ObjectId values a state holds: the _id of the participant documents
\* and of the byes Monrad creates, wherever the format copies them into its
\* state.  Round robin and pools keep no participant in their state.
ObjectIdsIn(state) ==
  CASE state.format = "monrad" ->
         ({state.seedPositions[k].participant_id : k \in DOMAIN state.seedPositions}
          \cup {state.participantHistory[id].participant_id :
                  id \in DOMAIN state.participantHistory}
          \cup UNION {{state.participantHistory[id].opponents[k] :
                         k \in 1..Len(state.participantHistory[id].opponents)} :
                      id \in DOMAIN state.participantHistory}) \ {NULL}
    [] state.format = "single_elimination" ->
         {state.bracketPositions[k].id : k \in DOMAIN state.bracketPositions} \ {NULL}
    [] OTHER -> {}

\* JSON.stringify(state): the text of the state's tree, in which toJSON has
\* written every ObjectId as the string of its hex digits.  `strings` are the
\* ids of the tree that the text holds as strings.
Serialize(state) == [wellFormed |-> TRUE, value |-> state, strings |-> ObjectIdsIn(state)]

\* A text JSON.parse does not accept.
InvalidBlob == [wellFormed |-> FALSE, value |-> NoState, strings |-> {}]

\* deserialize: JSON.parse(blob).  Monrad lets the SyntaxError of JSON.parse
\* through, the other formats wrap it.  What is parsed holds a string where
\* the text holds one.
Deserialize(formatId, blob) ==
  IF ~blob.wellFormed
  THEN [raised |-> TRUE,
        error |-> IF formatId = "monrad" THEN "SyntaxError"
                  ELSE "Failed to deserialize tournament state"]
  ELSE [raised |-> FALSE, value |-> blob.value, strings |-> blob.strings]

\* serializeState of the stored state.
SerializeState ==
  /\ state_blob # NoState
  /\ config.format \in DOMAIN formats
  /\ "blob" \notin DOMAIN lastReturn
  /\ "deserialized" \notin DOMAIN lastReturn
  /\ lastReturn' = [blob |-> Serialize(state_blob)]
  /\ UNCHANGED <<entrants, state_blob, matches, bracket, callArg, callArgBefore, lastCall,
                 config, groups, inflight, standings, formats>>

\* deserializeState of the blob serializeState returned, or of a text that is
\* no JSON.
DeserializeState(blob) ==
  /\ state_blob # NoState
  /\ config.format \in DOMAIN formats
  /\ "deserialized" \notin DOMAIN lastReturn
  /\ blob.wellFormed => ("blob" \in DOMAIN lastReturn /\ blob = lastReturn.blob)
  /\ lastReturn' = [deserialized |-> Deserialize(config.format, blob),
                    blobValid |-> blob.wellFormed]
  /\ UNCHANGED <<entrants, state_blob, matches, bracket, callArg, callArgBefore, lastCall,
                 config, groups, inflight, standings, formats>>

InitRoundTrip ==
  \/ InitMonradGen
  \/ InitSE
  \/ \E format \in {"round_robin", "pools_knockout"} :
       \E n \in RRMinParticipants..PoolsMinParticipants, targetSize \in {0, RRMinGroupSize} :
         GroupsDraft(format, n, n \div 2, targetSize)

NextRoundTrip ==
  \/ NextGenerate
  \/ NextSE
  \/ \E round \in 1..MaxLookupRound, number \in 1..2, aWins \in BOOLEAN :
       MonradResultCall(round, number, aWins)
  \/ \E m \in 1..MaxPlayedFixtures, aWins \in BOOLEAN : RRApplyResult(m, aWins)
  \/ \E m \in 1..MaxPlayedFixtures, aWins \in BOOLEAN : PoolsApplyResult(m, aWins)
  \/ SerializeState
  \/ \E blob \in {InvalidBlob} \cup {Serialize(state_blob)} : DeserializeState(blob)

SpecRoundTrip == InitRoundTrip /\ [][NextRoundTrip]_vars

\* The parsed value is the state, and no id of it has become a string.
StructurallyEqual(parsed, state) == parsed.value = state /\ parsed.strings = {}

\* C29: what deserialize makes of the blob serialize returned for the stored
\* state is structurally equal to that state; of a text that is no JSON
\* deserialize makes an error and no value.
C29_RoundTripIsEqual ==
  "deserialized" \in DOMAIN lastReturn =>
    IF lastReturn.blobValid
    THEN /\ ~lastReturn.deserialized.raised
         /\ StructurallyEqual(lastReturn.deserialized, state_blob)
    ELSE /\ lastReturn.deserialized.raised
         /\ "value" \notin DOMAIN lastReturn.deserialized

---------------------------------------------------------------------------
(* Pools: the phase                                                        *)

PoolsGenerated == state_blob # NoState /\ state_blob.format = "pools_knockout"

\* C31: a pools tournament is in phase pools until the submission that
\* completes the last outstanding pool fixture and in phase knockout from then
\* on; poolsComplete and knockoutGenerated are true exactly in phase knockout;
\* no step takes the phase back to pools.
C31_PhaseFollowsPoolFixtures ==
  /\ [](PoolsGenerated =>
          /\ state_blob.phase \in {"pools", "knockout"}
          /\ state_blob.phase = "knockout" <=> AllFixturesCompleted
          /\ state_blob.poolsComplete <=> state_blob.phase = "knockout"
          /\ state_blob.knockoutGenerated <=> state_blob.phase = "knockout")
  /\ [][(PoolsGenerated /\ state_blob.phase = "knockout") =>
          state_blob'.phase = "knockout"]_vars

---------------------------------------------------------------------------
(* Single elimination: completion and the current round                    *)

\* C32: onMatchResult has not returned tournamentComplete = true while the
\* final has no result, and a submission raises state.currentRound only if
\* with it every match of the round that was current is completed.
C32_CompleteOnlyAfterFinal ==
  /\ [](SEGenerated =>
          (lastReturn.tournamentComplete => SEFinished(state_blob.totalRounds, 0)))
  /\ [][SEGenerated =>
          \E current \in {state_blob.currentRound} :
            state_blob'.currentRound > current =>
              /\ current <= state_blob.totalRounds
              /\ (\A index \in 0..(state_blob.drawSize \div (2^current) - 1) :
                    SEFinished(current, index))']_vars


\* The participants carry the seeds 1..N.
SeededOneToN == {entrants[i].seed : i \in 1..Len(entrants)} = 1..Len(entrants)

\* The round-1 slots (match index, side) that hold the participant with this id.
SERoundOneSlots(id) ==
  {slot \in (1..Len(matches)) \X {"a", "b"} :
     /\ matches[slot[1]].round = 1
     /\ LET ref == IF slot[2] = "a" THEN matches[slot[1]].participant_a
                   ELSE matches[slot[1]].participant_b
        IN ref.type = "participant" /\ ref.participant_id = id}

\* C33: after generation from N participants seeded 1..N, the bracket-position
\* order of the draw size is a permutation of 1..drawSize, and every
\* participant occupies exactly one slot of exactly one round-1 match.
C33_SeedsPlacedOnce ==
  (SEGenerated /\ SeededOneToN /\ lastCall = NoCall) =>
    /\ \E bracketPositions \in {GenerateBracketPositions(state_blob.drawSize)} :
         /\ Len(bracketPositions) = state_blob.drawSize
         /\ {bracketPositions[i] : i \in 1..Len(bracketPositions)} = 1..state_blob.drawSize
    /\ \A i \in 1..Len(entrants) : Cardinality(SERoundOneSlots(entrants[i].id)) = 1


\* The round-1 matches with a bye in at least one slot.
SEByeMatches ==
  {m \in 1..Len(matches) :
     /\ matches[m].round = 1
     /\ (matches[m].participant_a.type = "bye" \/ matches[m].participant_b.type = "bye")}

\* C34: after generation, whatever seeds the participants carry, no round-1
\* match has a bye in both slots, and the number of round-1 matches that
\* contain a bye equals state.byeCount.
C34_ByesOnePerMatch ==
  (SEGenerated /\ lastCall = NoCall) =>
    /\ \A m \in SEByeMatches :
         ~(matches[m].participant_a.type = "bye" /\ matches[m].participant_b.type = "bye")
    /\ Cardinality(SEByeMatches) = state_blob.byeCount


\* The real and bye participants the seed table was built from.
MonradSeededParticipants == AdjustParticipantsForMonrad(entrants)

\* C35: after generation and after every result that was applied to a ready
\* match with its two participants as winner and loser, the seed table is a
\* bijection between the seeds 1..S and the S real and bye participants.
C35_SeedTableBijection ==
  (config.format = "monrad" /\ state_blob # NoState) =>
    \E S \in {MonradStateSize(state_blob)} :
      /\ DOMAIN state_blob.seedPositions = 1..S
      /\ Len(MonradSeededParticipants) = S
      /\ {state_blob.seedPositions[k].participant_id : k \in 1..S}
           = {MonradSeededParticipants[i].id : i \in 1..S}
      /\ \A k, l \in 1..S :
           state_blob.seedPositions[k].participant_id
             = state_blob.seedPositions[l].participant_id => k = l

\* C35 witness: in a tournament padded with byes, a round-2 result was applied
\* in which the holder of the higher seed won, so both entries changed hands.
C35_Witness ==
  /\ config.format = "monrad" /\ state_blob # NoState
  /\ Len(entrants) < MonradStateSize(state_blob)
  /\ lastCall.match # 0
  /\ lastCall.round = 2
  /\ \E lo, hi \in DOMAIN state_blob.seedPositions :
       /\ lo < hi
       /\ callArgBefore.seedPositions[hi].participant_id = lastCall.result.winner_id
       /\ state_blob.seedPositions[lo].participant_id = lastCall.result.winner_id
       /\ state_blob.seedPositions[hi].participant_id = lastCall.result.loser_id


\* Results are processed one at a time, and a match that is ready stays ready
\* until its result is processed: as long as some match is ready, a result is
\* eventually submitted.
SpecProgress == Init /\ [][Next]_vars /\ WF_vars(Next)

\* Neither slot of the match is a seed placeholder and the match is completed.
MonradPlayed(match) ==
  /\ match.participant_a.type # "seed_position"
  /\ match.participant_b.type # "seed_position"
  /\ match.status = "completed"

\* C36: when every match that becomes ready eventually receives a result,
\* every match of every round eventually has both slots resolved and is
\* completed; no match of a later round stays pending for ever.
C36_EveryMatchCompletes ==
  <>(\A m \in 1..Len(matches) : MonradPlayed(matches[m]))


\* C37: every pool that generation makes from an accepted configuration has
\* strictly more members than advance_per_group, and at least 3 members.
C37_PoolsLargerThanAdvance ==
  PoolsGenerated =>
    \A g \in 1..Len(groups) :
      /\ Len(groups[g].participants) > state_blob.advancePerGroup
      /\ Len(groups[g].participants) >= PoolsMinGroupSize


---------------------------------------------------------------------------
(* PoolsKnockoutFormat.getStandings                                        *)

\* The number of rows _formatPoolStandings flags as qualified.
PoolsAssumedQualifiers == 2

PoolsFormatPoolStandings(table) ==
  [index \in 1..Len(table) |->
     [position |-> index,
      participant_id |-> table[index].participant_id,
      name |-> table[index].name,
      played |-> table[index].played,
      wins |-> table[index].wins,
      losses |-> table[index].losses,
      qualified |-> (index - 1) < PoolsAssumedQualifiers]]

PoolsGenerateKnockoutBracket(state) ==
  [drawSize |-> state.knockoutDrawSize, currentRound |-> 1]

\* Array.prototype.slice(0, end) for end >= 0.
SliceTo(seq, end) == SubSeq(seq, 1, IF end < Len(seq) THEN end ELSE Len(seq))

PoolsGetStandings(state, groupDocs) ==
  IF state.phase = "pools"
  THEN [type |-> "pools",
        phase |-> "pools",
        groups |-> [g \in 1..Len(groupDocs) |->
                      [id |-> groupDocs[g]._id,
                       name |-> groupDocs[g].name,
                       standings |-> PoolsFormatPoolStandings(groupDocs[g].standings),
                       completed |-> groupDocs[g].completed,
                       qualifiers |->
                         [k \in 1..Len(SliceTo(groupDocs[g].standings, state.advancePerGroup)) |->
                            groupDocs[g].standings[k].name]]]]
  ELSE [type |-> "knockout",
        phase |-> "knockout",
        bracket |-> PoolsGenerateKnockoutBracket(state)]

MaxStandingsPlayers == 12
MaxAdvance == 3
MaxStandingRows == 4

\* A pools configuration with both group settings given.
PoolsConfig(targetSize, advancePerGroup) ==
  [format |-> "pools_knockout", target_size |-> targetSize,
   advance_per_group |-> advancePerGroup]

\* The group document of a generated pool whose standings table lists its first
\* `rows` members in order, each with the results of a finished pool.
PoolGroupDoc(group, rows) ==
  LET members == group.participants
      listed == IF rows < Len(members) THEN rows ELSE Len(members)
  IN [_id |-> group._id,
      name |-> group.name,
      completed |-> FALSE,
      standings |-> [i \in 1..listed |->
                       [participant_id |-> members[i].id,
                        name |-> members[i].name,
                        played |-> Len(members) - 1,
                        wins |-> Len(members) - i,
                        losses |-> i - 1]]]

\* A generated pools tournament in its pools phase whose group documents carry
\* standings tables, before getStandings is called.
InitStandings ==
  \E n \in PoolsMinParticipants..MaxStandingsPlayers,
     targetSize \in PoolsMinGroupSize..MaxTargetSize,
     advancePerGroup \in 1..MaxAdvance,
     rows \in 0..MaxStandingRows :
    /\ PoolsValidateConfig(PoolsConfig(targetSize, advancePerGroup), GroupParticipants(n, n))
    /\ \E generated \in {PoolsGenerateInitialState(PoolsConfig(targetSize, advancePerGroup),
                                                    GroupParticipants(n, n))} :
         /\ state_blob = generated.state
         /\ matches = generated.matches
         /\ groups = [g \in 1..Len(generated.groups) |->
                        PoolGroupDoc(generated.groups[g], rows)]
         /\ callArg = generated.state
         /\ callArgBefore = generated.state
    /\ entrants = GroupSortParticipants(GroupParticipants(n, n))
    /\ config = PoolsConfig(targetSize, advancePerGroup)
    /\ bracket = <<>>
    /\ lastReturn = NoReturn
    /\ lastCall = NoCall
    /\ inflight = <<>>
    /\ standings = NoStandings
    /\ formats = RegisteredFormats

\* GET /api/tournaments/:id/standings of a pools tournament.
GetStandingsCall ==
  /\ config.format = "pools_knockout"
  /\ state_blob # NoState
  /\ lastReturn = NoReturn
  /\ lastReturn' = PoolsGetStandings(state_blob, groups)
  /\ UNCHANGED <<entrants, state_blob, matches, bracket, callArg, callArgBefore,
                 lastCall, config, groups, inflight, standings, formats>>

NextStandings == GetStandingsCall

SpecStandings == InitStandings /\ [][NextStandings]_vars

\* The names of the rows of a returned standings table that are flagged qualified.
QualifiedNames(table) ==
  LET flagged == SelectSeq(table, LAMBDA row : row.qualified)
  IN [k \in 1..Len(flagged) |-> flagged[k].name]

\* C38: in a getStandings answer of the pools phase, for every group, the rows
\* flagged qualified are exactly the first advancePerGroup rows of the group's
\* standings: the same participants as the group's qualifiers list.
C38_QualifiedAreQualifiers ==
  ("type" \in DOMAIN lastReturn /\ lastReturn.type = "pools") =>
    \A g \in 1..Len(lastReturn.groups) :
      /\ \A i \in 1..Len(lastReturn.groups[g].standings) :
           lastReturn.groups[g].standings[i].qualified <=> i <= state_blob.advancePerGroup
      /\ QualifiedNames(lastReturn.groups[g].standings) = lastReturn.groups[g].qualifiers


---------------------------------------------------------------------------
(* Results for matches that are not ready                                  *)

\* The participant a client names for a slot: the one in the slot, or for a
\* seed placeholder the current holder of that seed.
NamedFor(ref, seedPositions) ==
  IF ref.type = "seed_position" /\ ref.seed \in DOMAIN seedPositions
  THEN ParticipantRef(seedPositions[ref.seed].participant_id, seedPositions[ref.seed].name)
  ELSE ref

\* The completed matches with a stored result that name the participant.
PlayedMatches(docs, participantId) ==
  {m \in 1..Len(docs) :
     /\ docs[m].status = "completed"
     /\ HasResult(docs[m])
     /\ participantId \in {docs[m].result.winner_participant_id,
                           docs[m].result.loser_participant_id}}

\* Every participant's wins + losses is the number of completed matches with a
\* result that the participant took part in.
HistoryMatchesPlayed(state, docs) ==
  \A id \in DOMAIN state.participantHistory :
    state.participantHistory[id].wins + state.participantHistory[id].losses
      = Cardinality(PlayedMatches(docs, id))

MaxSubmissions == 3

\* The number of results the history has counted: the wins it holds.
RECURSIVE WinsCounted(_, _)
WinsCounted(history, ids) ==
  IF ids = {} THEN 0
  ELSE LET id == CHOOSE x \in ids : TRUE
       IN history[id].wins + WinsCounted(history, ids \ {id})

Submissions(state) == WinsCounted(state.participantHistory, DOMAIN state.participantHistory)

\* A result is reported for a match that is already completed, or still
\* pending.  The handler looks neither at the status nor at the stored result.
SubmitResultAgain(m, aWins) ==
  /\ config.format = "monrad"
  /\ matches[m].status # "ready"
  /\ UpdateSeedPositionsDefined(state_blob, matches[m])
  /\ \E named \in {[matches[m] EXCEPT
                      !.participant_a = NamedFor(@, state_blob.seedPositions),
                      !.participant_b = NamedFor(@, state_blob.seedPositions)]} :
       \E matchResult \in {ResultFor(named, aWins)} :
         \E handled \in {HandleResult(state_blob, matches, m, matchResult)} :
           /\ state_blob' = handled.state
           /\ matches' = handled.matches
           /\ callArg' = handled.input
           /\ callArgBefore' = state_blob
           /\ lastReturn' = [updatedMatches |-> handled.updatedMatches,
                             tournamentComplete |-> handled.tournamentComplete]
           /\ lastCall' = [match |-> m, round |-> matches[m].round, result |-> matchResult]
  /\ UNCHANGED <<entrants, bracket, config, groups, inflight, standings, formats>>

\* Results for ready and for other matches, MaxSubmissions of them in all.
NextAgain ==
  /\ Submissions(state_blob) < MaxSubmissions
  /\ \E m \in 1..Len(matches), aWins \in BOOLEAN :
       SubmitResult(m, aWins) \/ SubmitResultAgain(m, aWins)

SpecAgain == Init /\ [][NextAgain]_vars

\* C39: a result submitted for a match that is completed, or pending, leaves
\* the tournament as it was: the stored result, the history counters and the
\* seed table are not updated, so every participant's wins + losses is the
\* number of completed played matches the participant took part in.
C39_ResubmissionIgnored ==
  /\ [](HistoryMatchesPlayed(state_blob, matches))
  /\ [][(\A k \in 1..Len(matches) :
           matches[k].status = "ready" => matches'[k].status = "ready") =>
          /\ \A m \in 1..Len(matches) : matches'[m].result = matches[m].result
          /\ state_blob'.participantHistory = state_blob.participantHistory
          /\ state_blob'.seedPositions = state_blob.seedPositions]_vars


\* The round numbers of the generated matches.
GeneratedRounds == {matches[m].round : m \in 1..Len(matches)}

\* C40: the round numbers of the matches generated for a round-robin or a
\* Monrad tournament are 1..k for some k <= state.totalRounds, and no
\* participant of a round-robin group is in two fixtures of that group with
\* the same round number.
C40_RoundsContiguous ==
  (state_blob # NoState /\ state_blob.format \in {"round_robin", "monrad"}
     /\ lastCall = NoCall) =>
    /\ \E k \in 1..state_blob.totalRounds : GeneratedRounds = 1..k
    /\ state_blob.format = "round_robin" =>
         \A m, n \in 1..Len(matches) :
           (m # n /\ matches[m].group_id = matches[n].group_id
              /\ matches[m].round = matches[n].round) =>
             FixtureIds(matches[m]) \cap FixtureIds(matches[n]) = {}

====
